---- MODULE Spec2Model ----
(***************************************************************************)
(* A model of the fraud-analysis service: the customer data store          *)
(* (data_service.py), the text-generation client (ai_service.py), the      *)
(* analysis orchestrator (analysis_service.py) and the analyse endpoint    *)
(* (api/analysis.py).                                                      *)
(*                                                                         *)
(* Text is a sequence of tokens.  A word token stands for a run of         *)
(* non-blank characters; words of prose are separated by blanks that are   *)
(* not written.  In machine-readable text (model responses) the blank      *)
(* " ", the quotes, the brackets and the code fences are tokens of their   *)
(* own.  A substring test of the source is the test for a contiguous       *)
(* run of tokens.  Time is counted in ticks of one time unit (second).     *)
(***************************************************************************)
EXTENDS Integers, Sequences, FiniteSets, TLC

\* ------------------------------------------------------------------------
\* Bounds of the model
\* ------------------------------------------------------------------------
MaxCalls == 2            \* completion requests one caller issues in a run
MaxTime == 12            \* the clock stops here
StartTime == 2           \* wall clock at construction (any value >= the interval)
MaxLatency == 0          \* ticks a remote call may take
MaxFraud == 1            \* largest fraud-case count in a row
MaxTextLen == 3          \* longest enumerated raw text
MaxDraw == 1             \* largest draw of the random generator in the draw runs
MaxReads == 2            \* reads of the spreadsheet in a run of the data store
MaxQuestions == 6        \* longest questions list of an enumerated analysis
MaxRaw == 9              \* longest list of raw questions handed to the structuring step

\* the concurrent callers of the client
Callers == {1, 2}

\* ------------------------------------------------------------------------
\* Text
\* ------------------------------------------------------------------------
Max(a, b) == IF a >= b THEN a ELSE b
Min(a, b) == IF a <= b THEN a ELSE b

\* str.lower() on one token
LowerTok(t) ==
    CASE t = "High" -> "high"
      [] t = "HIGH" -> "high"
      [] t = "Risk" -> "risk"
      [] t = "RISK" -> "risk"
      [] t = "Medium" -> "medium"
      [] t = "Low" -> "low"
      [] t = "Multiple" -> "multiple"
      [] t = "Indicator" -> "indicator"
      [] t = "N/A" -> "n/a"
      [] t = "Customer" -> "customer"
      [] t = "Analysis" -> "analysis"
      [] t = "Report:" -> "report:"
      [] t = "ID:" -> "id:"
      [] t = "Account" -> "account"
      [] t = "Details:" -> "details:"
      [] t = "BSB" -> "bsb"
      [] t = "Assessment" -> "assessment"
      [] t = "Summary:" -> "summary:"
      [] t = "Total" -> "total"
      [] t = "Indicators" -> "indicators"
      [] t = "Detected:" -> "detected:"
      [] t = "Levels" -> "levels"
      [] t = "Found:" -> "found:"
      [] t = "None" -> "none"
      [] t = "Fraud" -> "fraud"
      [] t = "History:" -> "history:"
      [] t = "Previous" -> "previous"
      [] t = "Cases:" -> "cases:"
      [] t = "Notes:" -> "notes:"
      [] t = "No" -> "no"
      [] t = "IMPORTANT:" -> "important:"
      [] t = "Generate" -> "generate"
      [] t = "Do" -> "do"
      [] t = "NOT" -> "not"
      [] t = "BioCatch" -> "biocatch"
      [] t = "Group" -> "group"
      [] t = "IB" -> "ib"
      [] t = "SASFM" -> "sasfm"
      [] t = "ISOD" -> "isod"
      [] t = "Technical" -> "technical"
      [] t = "Manual" -> "manual"
      [] t = "Unable" -> "unable"
      [] t = "Fraud_Cases_Linked_Past_30_Days:" -> "fraud_cases_linked_past_30_days:"
      [] OTHER -> t

Lower(text) == [i \in DOMAIN text |-> LowerTok(text[i])]

\* text[i:] starts with pat (1-based)
StartsAt(text, pat, i) ==
    /\ i >= 1
    /\ i + Len(pat) - 1 <= Len(text)
    /\ \A j \in 1..Len(pat) : text[i + j - 1] = pat[j]

\* pat in text
Contains(text, pat) == \E i \in 1..(Len(text) + 1) : StartsAt(text, pat, i)

Blank == " "

RECURSIVE LStrip(_)
LStrip(text) ==
    IF text # <<>> /\ Head(text) = Blank THEN LStrip(Tail(text)) ELSE text

RECURSIVE RStrip(_)
RStrip(text) ==
    IF text # <<>> /\ text[Len(text)] = Blank
    THEN RStrip(SubSeq(text, 1, Len(text) - 1))
    ELSE text

\* str.strip()
Strip(text) == RStrip(LStrip(text))

\* str(n) for the small numbers of the model
Digits == <<"0", "1", "2", "3", "4", "5", "6", "7", "8", "9">>
NumTok(n) == IF n >= 0 /\ n <= 9 THEN Digits[n + 1] ELSE "many"

\* join(items) with a comma, for items that are token sequences (the comma is a token)
RECURSIVE JoinComma(_)
JoinComma(items) ==
    IF items = <<>> THEN <<>>
    ELSE IF Len(items) = 1 THEN items[1]
    ELSE items[1] \o <<",">> \o JoinComma(Tail(items))

\* ------------------------------------------------------------------------
\* The question bank (ai_service.py, _generate_pattern_based_questions)
\* ------------------------------------------------------------------------
investment_questions == <<
    "Do you believe you are investing with a real firm?",
    "Are you confident this investment opportunity is legitimate?",
    "Do you trust that the company you're investing with is genuine?",
    "Have you verified that this investment firm is real and regulated?",
    "Are you certain the investment platform you're using is authentic?"
>>

contact_questions == <<
    "Was the contact initiated by you or did they contact you first?",
    "Did you reach out to them, or did they approach you initially?",
    "Who made the first contact - you or the investment company?",
    "Did you find them through your own research, or did they contact you directly?",
    "Were you the one who started this conversation, or did they call you first?"
>>

access_questions == <<
    "Is there any remote access to your computer or are you currently on a call with them?",
    "Do they have access to your computer remotely, or are you speaking with them right now?",
    "Are you currently connected to them through your computer or on a phone call?",
    "Have you given them remote control of your device, or are you talking to them now?",
    "Is someone accessing your computer from their end, or are you in contact with them at the moment?"
>>

payment_questions == <<
    "Are there multiple payments set up or any future dated payments?",
    "Have you scheduled several payments or any upcoming automatic transfers?",
    "Are there multiple transactions arranged or any payments planned for later?",
    "Have you set up recurring payments or any future-dated transfers?",
    "Are there several payment installments or any scheduled transactions coming up?"
>>

resistance_questions == <<
    "Are you hesitant to believe this might be a scam?",
    "Do you have any doubts that this could potentially be fraudulent?",
    "Are you concerned this might not be legitimate?",
    "Do you suspect this could be a scam or fraud attempt?",
    "Are you questioning whether this investment opportunity is genuine?"
>>

\* one phrasing list per pattern, in the order of selected_questions
Patterns == <<investment_questions, contact_questions, access_questions,
              payment_questions, resistance_questions>>

\* random.choice: the generator's next draw (0-based) picks the element
random_choice(list, draw) == list[(draw % Len(list)) + 1]

\* the five draws of one call, one per pattern and in pattern order
_generate_pattern_based_questions(draws) ==
    [i \in 1..5 |-> random_choice(Patterns[i], draws[i])]

\* the fixed list analyze_fraud_data returns when the request fails
afd_fallback_questions == <<
    "Do you believe you are investing with a real firm?",
    "Was the contact initiated by you or did they contact you first?",
    "Is there any remote access to your computer or are you currently on a call with them?",
    "Are there multiple payments set up or any future dated payments?",
    "Are you hesitant to believe this might be a scam?"
>>

\* the fixed list of _parse_json_response's fallback object
parse_fallback_questions == <<
    "Can you verify your recent account activity?",
    "Have you noticed any unauthorized transactions?",
    "Have you shared your account details with anyone recently?",
    "Are you aware of any suspicious communications?",
    "Can you confirm your recent login locations?"
>>

\* the fixed list of the orchestrator's local fallback analysis
local_fallback_questions == <<
    "Can you verify your recent account activity and confirm all transactions?",
    "Have you noticed any unusual or unauthorized account access recently?",
    "Have you shared your account credentials with anyone or accessed your account from new devices?",
    "Can you confirm your current contact information and verify any recent changes?",
    "Have you received any suspicious communications claiming to be from our bank?"
>>

\* The keywords of _categorize_question that occur in question.lower(),
\* for the question strings of the source.
KeywordsIn(q) ==
    CASE q = "Was the contact initiated by you or did they contact you first?" -> {"contact"}
      [] q = "Who made the first contact - you or the investment company?" -> {"contact"}
      [] q = "Did you find them through your own research, or did they contact you directly?" -> {"contact"}
      [] q = "Is there any remote access to your computer or are you currently on a call with them?" -> {"access"}
      [] q = "Do they have access to your computer remotely, or are you speaking with them right now?" -> {"access"}
      [] q = "Are you currently connected to them through your computer or on a phone call?" -> {"phone"}
      [] q = "Have you given them remote control of your device, or are you talking to them now?" -> {"device"}
      [] q = "Is someone accessing your computer from their end, or are you in contact with them at the moment?" -> {"access", "contact"}
      [] q = "Are there multiple payments set up or any future dated payments?" -> {"payment"}
      [] q = "Have you scheduled several payments or any upcoming automatic transfers?" -> {"payment"}
      [] q = "Are there multiple transactions arranged or any payments planned for later?" -> {"transaction", "payment"}
      [] q = "Have you set up recurring payments or any future-dated transfers?" -> {"payment"}
      [] q = "Are there several payment installments or any scheduled transactions coming up?" -> {"transaction", "payment"}
      [] q = "Can you verify your recent account activity?" -> {"verify"}
      [] q = "Have you noticed any unauthorized transactions?" -> {"transaction"}
      [] q = "Are you aware of any suspicious communications?" -> {"communication"}
      [] q = "Can you confirm your recent login locations?" -> {"login", "location", "confirm"}
      [] q = "Can you verify your recent account activity and confirm all transactions?" -> {"transaction", "verify", "confirm"}
      [] q = "Have you noticed any unusual or unauthorized account access recently?" -> {"access"}
      [] q = "Have you shared your account credentials with anyone or accessed your account from new devices?" -> {"device", "access"}
      [] q = "Can you confirm your current contact information and verify any recent changes?" -> {"verify", "confirm", "contact", "change"}
      [] q = "Have you received any suspicious communications claiming to be from our bank?" -> {"communication"}
      [] OTHER -> {}

\* ------------------------------------------------------------------------
\* Customer rows and the data file (data_service.py)
\* ------------------------------------------------------------------------
HIGH_RISK == <<"high", "risk">>
MEDIUM_RISK == <<"medium", "risk">>
LOW_RISK == <<"low", "risk">>
UNKNOWN == <<"N/A">>
\* a spreadsheet cell that is not one of the four values of RiskLevel
HIGH_CAPS == <<"High", "Risk">>

FlagValues == {HIGH_RISK, MEDIUM_RISK, LOW_RISK, UNKNOWN, HIGH_CAPS}

\* the fraud-case cell: a number, or text
FraudCells == [isnum : {TRUE}, n : 0..MaxFraud] \cup {[isnum |-> FALSE, n |-> 0]}

Rows == [id : {"12345"}, BSB : {"803-323"}, ACCOUNT : {"123456789"},
         BIOCATCH_FLAG : FlagValues, GROUP_IB_FLAG : FlagValues,
         SASFM_FLAG : FlagValues, ISOD_FLAG : FlagValues,
         fraud : FraudCells]

\* the row of the spec's scenario
ScenarioRow == [id |-> "12345", BSB |-> "803-323", ACCOUNT |-> "123456789",
                BIOCATCH_FLAG |-> HIGH_RISK, GROUP_IB_FLAG |-> HIGH_RISK,
                SASFM_FLAG |-> MEDIUM_RISK, ISOD_FLAG |-> LOW_RISK,
                fraud |-> [isnum |-> TRUE, n |-> 1]]

\* a row whose flag cells are all empty
UnknownRow == [id |-> "12345", BSB |-> "803-323", ACCOUNT |-> "123456789",
               BIOCATCH_FLAG |-> UNKNOWN, GROUP_IB_FLAG |-> UNKNOWN,
               SASFM_FLAG |-> UNKNOWN, ISOD_FLAG |-> UNKNOWN,
               fraud |-> [isnum |-> TRUE, n |-> 0]]

\* the rows the analysis is run on: every combination of a flag raised in
\* lower case, raised in capitals and not raised, with every fraud-case
\* cell, and the two rows above
AnalysedFlags == {HIGH_RISK, HIGH_CAPS, LOW_RISK}
AnalysedRows ==
    {r \in Rows : /\ r.BIOCATCH_FLAG \in AnalysedFlags
                  /\ r.GROUP_IB_FLAG \in AnalysedFlags
                  /\ r.SASFM_FLAG \in AnalysedFlags
                  /\ r.ISOD_FLAG \in AnalysedFlags}
    \cup {ScenarioRow, UnknownRow}

\* A data file: absent, unreadable, or a table whose identifier column has
\* the name idcol ("" when the table has none of the known names).
NoTable == [state |-> "none", idcol |-> "", rows |-> <<>>]
MissingFile == [state |-> "missing", idcol |-> "", rows |-> <<>>]
CorruptFile == [state |-> "corrupt", idcol |-> "", rows |-> <<>>]
Table(idcol, rows) == [state |-> "table", idcol |-> idcol, rows |-> rows]
\* a readable sheet whose header cells are numbers: pd.read_excel returns
\* its frame, and columns.str.strip() raises on the labels
NumericHeaderFile(rows) == [state |-> "numeric_header", idcol |-> "", rows |-> rows]

IdColumns == <<"Customer_CGID", "customer_id", "Customer_ID", "CUSTOMER_ID", "CustomerID">>

\* an outcome of a call: a value, or the exception it raised
Ok(v) == [raised |-> "", msg |-> <<>>, value |-> v]
RaiseMsg(exc, msg) == [raised |-> exc, msg |-> msg, value |-> <<>>]
Raise(exc) == RaiseMsg(exc, <<exc>>)

RECURSIVE SelectRows(_, _)
SelectRows(rows, id) ==
    IF rows = <<>> THEN <<>>
    ELSE IF Head(rows).id = id THEN <<Head(rows)>> \o SelectRows(Tail(rows), id)
    ELSE SelectRows(Tail(rows), id)

\* a load that ignores the cache
load_data_uncached(cache, file, force_reload) ==
    IF file.state = "missing"
    THEN [cache |-> cache, out |-> Raise("FileNotFoundError"), read |-> FALSE]
    ELSE IF file.state = "corrupt"
    THEN [cache |-> cache, out |-> Raise("Exception"), read |-> TRUE]
    ELSE IF file.state = "numeric_header"
    THEN [cache |-> Table("", file.rows), out |-> Raise("Exception"), read |-> TRUE]
    ELSE [cache |-> file, out |-> Ok(file), read |-> TRUE]

\* load_data(force_reload): the new cache, the outcome, and whether
\* pd.read_excel was called. _data_cache is assigned the frame before its
\* column labels are stripped, so a failure of the stripping leaves the
\* frame in the cache
load_data(cache, file, force_reload) ==
    IF cache.state = "none" \/ force_reload
    THEN IF file.state = "missing"
         THEN [cache |-> cache, out |-> Raise("FileNotFoundError"), read |-> FALSE]
         ELSE IF file.state = "corrupt"
         THEN [cache |-> cache, out |-> Raise("Exception"), read |-> TRUE]
         ELSE IF file.state = "numeric_header"
         THEN [cache |-> Table("", file.rows), out |-> Raise("Exception"), read |-> TRUE]
         ELSE [cache |-> file, out |-> Ok(file), read |-> TRUE]
    ELSE [cache |-> cache, out |-> Ok(cache), read |-> FALSE]

\* customer_id.strip() on an identifier written as text
IsBlankId(customer_id) == Strip(customer_id) = <<>>
IdOf(customer_id) == Strip(customer_id)[1]

\* the identifier column get_customer_data resolves ("" when there is none)
ResolveIdColumn(data) ==
    IF data.idcol = "Customer_CGID" THEN "Customer_CGID"
    ELSE IF \E i \in 2..Len(IdColumns) : IdColumns[i] = data.idcol THEN data.idcol
    ELSE ""

\* a lookup that loads the table before it looks at the identifier
get_customer_data_load_first(cache, file, customer_id) ==
    LET l == load_data(cache, file, FALSE)
    IN  IF l.out.raised # "" THEN l
        ELSE IF customer_id = <<>> \/ IsBlankId(customer_id)
        THEN [cache |-> l.cache, out |-> Raise("ValueError"), read |-> l.read]
        ELSE [cache |-> l.cache, out |-> Ok(Table(l.out.value.idcol, SelectRows(l.out.value.rows, IdOf(customer_id)))),
              read |-> l.read]

\* get_customer_data(customer_id): the new cache and the outcome
get_customer_data(cache, file, customer_id) ==
    IF customer_id = <<>> \/ IsBlankId(customer_id)
    THEN [cache |-> cache, out |-> Raise("ValueError"), read |-> FALSE]
    ELSE LET l == load_data(cache, file, FALSE)
             data == l.out.value
             found == SelectRows(data.rows, IdOf(customer_id))
         IN  IF l.out.raised # "" THEN l
             ELSE IF ResolveIdColumn(data) = ""
             THEN [cache |-> l.cache, out |-> Raise("Exception"), read |-> l.read]
             ELSE IF found = <<>>
             THEN [cache |-> l.cache, out |-> Raise("FileNotFoundError"), read |-> l.read]
             ELSE [cache |-> l.cache, out |-> Ok(Table(data.idcol, found)), read |-> l.read]

\* .unique(): the identifiers of the rows, each once, in order of first
\* appearance
RECURSIVE UniqueIds(_, _)
UniqueIds(rows, seen) ==
    IF rows = <<>> THEN <<>>
    ELSE IF Head(rows).id \in seen THEN UniqueIds(Tail(rows), seen)
    ELSE <<Head(rows).id>> \o UniqueIds(Tail(rows), seen \cup {Head(rows).id})

\* get_available_customers(): only the column Customer_CGID is looked at
get_available_customers(cache, file) ==
    LET l == load_data(cache, file, FALSE)
    IN  IF l.out.raised # "" THEN l
        ELSE IF l.out.value.idcol = "Customer_CGID"
        THEN [cache |-> l.cache, out |-> Ok(UniqueIds(l.out.value.rows, {})), read |-> l.read]
        ELSE [cache |-> l.cache, out |-> Ok(<<>>), read |-> l.read]

\* get_data_info(): the number of rows and of customers of the loaded table
get_data_info(cache, file) ==
    LET l == load_data(cache, file, FALSE)
        ids == get_available_customers(l.cache, file)
    IN  IF l.out.raised # "" THEN l
        ELSE [cache |-> ids.cache,
              out |-> Ok([rows |-> Len(l.out.value.rows), total_customers |-> Len(ids.out.value)]),
              read |-> l.read \/ ids.read]

\* first row of a data frame, and len(customer_data)
FirstRow(customer_data) == customer_data.rows[1]

RiskColumns == <<"BIOCATCH_FLAG", "GROUP_IB_FLAG", "SASFM_FLAG", "ISOD_FLAG">>

FlagOf(row, col) ==
    CASE col = "BIOCATCH_FLAG" -> row.BIOCATCH_FLAG
      [] col = "GROUP_IB_FLAG" -> row.GROUP_IB_FLAG
      [] col = "SASFM_FLAG" -> row.SASFM_FLAG
      [] col = "ISOD_FLAG" -> row.ISOD_FLAG

\* a label that passes the cell on as it is
RiskLabel_raw(flag_value) == <<flag_value>>

\* the generic label format_for_ai_analysis gives one flag (<<>>: none)
RiskLabel(flag_value) ==
    IF Contains(Lower(flag_value), <<"high", "risk">>) THEN <<<<"High", "Risk", "Indicator">>>>
    ELSE IF Contains(Lower(flag_value), <<"medium", "risk">>) THEN <<<<"Medium", "Risk", "Indicator">>>>
    ELSE IF Contains(Lower(flag_value), <<"low", "risk">>) THEN <<<<"Low", "Risk", "Indicator">>>>
    ELSE <<>>

\* the list risk_flags of format_for_ai_analysis
RiskFlagLabels(row) ==
    RiskLabel(row.BIOCATCH_FLAG) \o RiskLabel(row.GROUP_IB_FLAG)
        \o RiskLabel(row.SASFM_FLAG) \o RiskLabel(row.ISOD_FLAG)

\* row.get('Customer_CGID', 'N/A')
CgidOf(customer_data) ==
    IF customer_data.idcol = "Customer_CGID" THEN FirstRow(customer_data).id ELSE "N/A"

\* format_for_ai_analysis(customer_data): the text, or the exception raised
\* by the comparison of a fraud-case cell that is not a number
format_for_ai_analysis(customer_data) ==
    IF customer_data.rows = <<>> THEN Ok(<<"No", "customer", "data", "available">>)
    ELSE LET row == FirstRow(customer_data)
             risk_flags == RiskFlagLabels(row)
             fraud_cases == row.fraud
         IN  IF ~fraud_cases.isnum THEN Raise("TypeError")
             ELSE Ok(
                <<"Customer", "Analysis", "Report:">>
                \o <<"Customer", "ID:", CgidOf(customer_data)>>
                \o <<"Account", "Details:", "BSB", row.BSB, ",", "Account", row.ACCOUNT>>
                \o <<"Risk", "Assessment", "Summary:">>
                \o <<"-", "Total", "Risk", "Indicators", "Detected:", NumTok(Len(risk_flags))>>
                \o <<"-", "Risk", "Levels", "Found:">>
                \o (IF risk_flags # <<>> THEN JoinComma(risk_flags) ELSE <<"None">>)
                \o <<"Fraud", "History:">>
                \o <<"-", "Previous", "Fraud", "Cases:", NumTok(fraud_cases.n), "in", "past", "30", "days">>
                \o <<"Analysis", "Notes:">>
                \o <<"Customer", "has">>
                \o (IF Len(risk_flags) > 2 THEN <<"multiple", "risk", "indicators">>
                    ELSE IF risk_flags # <<>> THEN <<"some", "risk", "indicators">>
                    ELSE <<"minimal", "risk", "indicators">>)
                \o <<"detected", "through", "automated", "screening", "systems.">>
                \o (IF fraud_cases.n > 0
                    THEN <<"Previous", "fraud", "activity", "detected.">>
                    ELSE <<"No", "previous", "fraud", "cases", "on", "record.">>)
                \o <<"IMPORTANT:", "Generate", "customer-friendly", "questions", "only.",
                     "Do", "NOT", "mention", "system", "names", "or", "technical", "terms.">>)

\* ------------------------------------------------------------------------
\* The text-generation client (ai_service.py)
\* ------------------------------------------------------------------------
min_request_interval == 1
stop_after_attempt == 3
wait_multiplier == 1
wait_min == 4
wait_max == 10

RECURSIVE Pow2(_)
Pow2(n) == IF n <= 0 THEN 1 ELSE 2 * Pow2(n - 1)

\* tenacity's wait_exponential(multiplier, min, max) after attempt number n
wait_exponential(attempt_number) ==
    Max(Max(0, wait_min), Min(wait_multiplier * Pow2(attempt_number - 1), wait_max))

\* a throttle that never waits
rate_limit_wait_none(current_time, last) == 0

\* _rate_limit: the time to sleep when the pass starts at current_time
rate_limit_wait(current_time, last) ==
    LET elapsed == current_time - last
    IN  IF elapsed < min_request_interval THEN min_request_interval - elapsed ELSE 0

NoUsage == [present |-> FALSE, total_tokens |-> 0, prompt_tokens |-> 0, completion_tokens |-> 0]
Usage(t, p, c) == [present |-> TRUE, total_tokens |-> t, prompt_tokens |-> p, completion_tokens |-> c]

\* an optional string: None, or the one-element tuple of the string
None == <<>>
Str(s) == <<s>>
placeholder == Str("your_openai_api_key_here")

\* Python truth of an optional string: None and the empty string are false
Truthy(s) == s # None /\ s # Str("")

\* a or b
Or(a, b) == IF Truthy(a) THEN a ELSE b

\* a constructor that takes any non-empty key
OpenAIService_init_unchecked(api_key, model, getenv) ==
    LET key == Or(api_key, getenv)
    IN  IF ~Truthy(key)
        THEN RaiseMsg("OpenAIError", <<"OpenAI", "API", "key", "not", "configured.">>)
        ELSE Ok([api_key |-> key, model |-> model])

\* OpenAIService.__init__(api_key, model), getenv being
\* os.getenv("OPENAI_API_KEY"): the fields it sets, or the error it raises
OpenAIService_init(api_key, model, getenv) ==
    LET key == Or(api_key, getenv)
    IN  IF ~Truthy(key) \/ key = placeholder
        THEN RaiseMsg("OpenAIError", <<"OpenAI", "API", "key", "not", "configured.">>)
        ELSE Ok([api_key |-> key, model |-> model])

\* get_usage_stats()
get_usage_stats(cfg, counters) ==
    [token_usage |-> counters,
     model |-> cfg.model,
     api_configured |-> Truthy(cfg.api_key) /\ cfg.api_key # placeholder]

\* an update that counts the total only
_update_token_usage_total_only(counters, usage) ==
    IF usage.present
    THEN [counters EXCEPT !.total_tokens = counters.total_tokens + usage.total_tokens]
    ELSE counters

\* _update_token_usage(usage), called when the response carries usage
_update_token_usage(counters, usage) ==
    IF usage.present
    THEN [total_tokens |-> counters.total_tokens + usage.total_tokens,
          prompt_tokens |-> counters.prompt_tokens + usage.prompt_tokens,
          completion_tokens |-> counters.completion_tokens + usage.completion_tokens]
    ELSE counters

\* ------------------------------------------------------------------------
\* JSON documents and json.loads
\* ------------------------------------------------------------------------
\* A decoded document: a string (its tokens), a number, a literal, a list,
\* or a dict (a list of pairs in insertion order, keys distinct).
JStr(s) == [t |-> "str", s |-> s, a |-> <<>>]
JNum(n) == [t |-> "num", s |-> <<n>>, a |-> <<>>]
JLit(l) == [t |-> "lit", s |-> <<l>>, a |-> <<>>]
JArr(items) == [t |-> "arr", s |-> <<>>, a |-> items]
JPair(key, v) == [t |-> "pair", s |-> key, a |-> <<v>>]
JObj(pairs) == [t |-> "obj", s |-> <<>>, a |-> pairs]
JNone == [t |-> "none", s |-> <<>>, a |-> <<>>]

DQ == "\""
SQ == "'"
\* the code-fence tokens: three backquotes followed by json, and three backquotes
FENCE_JSON == "<fence>json"
FENCE == "<fence>"
DigitSet == {Digits[i] : i \in 1..Len(Digits)}
Literals == {"null", "true", "false"}

\* dict[key] = v
RECURSIVE DictSet(_, _, _)
DictSet(pairs, key, v) ==
    IF pairs = <<>> THEN <<JPair(key, v)>>
    ELSE IF Head(pairs).s = key THEN <<JPair(key, v)>> \o Tail(pairs)
    ELSE <<Head(pairs)>> \o DictSet(Tail(pairs), key, v)

HasKey(doc, key) == doc.t = "obj" /\ \E i \in 1..Len(doc.a) : doc.a[i].s = key
Get(doc, key) == doc.a[CHOOSE i \in 1..Len(doc.a) : doc.a[i].s = key].a[1]

RECURSIVE SkipWs(_, _)
SkipWs(text, i) ==
    IF i <= Len(text) /\ text[i] = Blank THEN SkipWs(text, i + 1) ELSE i

\* the first index >= i of a token of the set, 0 when there is none
RECURSIVE FindTok(_, _, _)
FindTok(text, toks, i) ==
    IF i > Len(text) THEN 0
    ELSE IF text[i] \in toks THEN i
    ELSE FindTok(text, toks, i + 1)

ParseFail == [ok |-> FALSE, val |-> JNone, next |-> 0]
ParseOk(v, next) == [ok |-> TRUE, val |-> v, next |-> next]

ParseString(text, i) ==
    LET j == FindTok(text, {DQ}, i + 1)
    IN  IF i > Len(text) \/ text[i] # DQ \/ j = 0 THEN ParseFail
        ELSE ParseOk(JStr(SubSeq(text, i + 1, j - 1)), j + 1)

RECURSIVE ParseValue(_, _), ParseElements(_, _, _), ParseMembers(_, _, _)

ParseValue(text, i0) ==
    LET i == SkipWs(text, i0)
    IN  IF i > Len(text) THEN ParseFail
        ELSE IF text[i] = DQ THEN ParseString(text, i)
        ELSE IF text[i] \in DigitSet THEN ParseOk(JNum(text[i]), i + 1)
        ELSE IF text[i] \in Literals THEN ParseOk(JLit(text[i]), i + 1)
        ELSE IF text[i] = "["
        THEN LET k == SkipWs(text, i + 1)
             IN  IF k <= Len(text) /\ text[k] = "]" THEN ParseOk(JArr(<<>>), k + 1)
                 ELSE ParseElements(text, i + 1, <<>>)
        ELSE IF text[i] = "{"
        THEN LET k == SkipWs(text, i + 1)
             IN  IF k <= Len(text) /\ text[k] = "}" THEN ParseOk(JObj(<<>>), k + 1)
                 ELSE ParseMembers(text, i + 1, <<>>)
        ELSE ParseFail

ParseElements(text, i, acc) ==
    LET v == ParseValue(text, i)
        k == SkipWs(text, v.next)
    IN  IF ~v.ok \/ k > Len(text) THEN ParseFail
        ELSE IF text[k] = "," THEN ParseElements(text, k + 1, Append(acc, v.val))
        ELSE IF text[k] = "]" THEN ParseOk(JArr(Append(acc, v.val)), k + 1)
        ELSE ParseFail

ParseMembers(text, i, acc) ==
    LET key == ParseString(text, SkipWs(text, i))
        c == SkipWs(text, key.next)
        v == ParseValue(text, c + 1)
        k == SkipWs(text, v.next)
    IN  IF ~key.ok \/ c > Len(text) \/ text[c] # ":" THEN ParseFail
        ELSE IF ~v.ok \/ k > Len(text) THEN ParseFail
        ELSE IF text[k] = "," THEN ParseMembers(text, k + 1, DictSet(acc, key.val.s, v.val))
        ELSE IF text[k] = "}" THEN ParseOk(JObj(DictSet(acc, key.val.s, v.val)), k + 1)
        ELSE ParseFail

\* json.loads(text): the document, or JSONDecodeError
json_loads(text) ==
    LET v == ParseValue(text, 1)
    IN  IF v.ok /\ SkipWs(text, v.next) = Len(text) + 1 THEN Ok(v.val)
        ELSE Raise("JSONDecodeError")

\* content.replace: every single quote becomes a double quote
ReplaceQuotes(text) == [i \in DOMAIN text |-> IF text[i] = SQ THEN DQ ELSE text[i]]

\* the interior of the first fenced json block, when it is closed
ExtractFenced(content) ==
    LET open == FindTok(content, {FENCE_JSON}, 1)
        end == FindTok(content, {FENCE, FENCE_JSON}, open + 1)
    IN  IF open # 0 /\ end # 0 THEN Strip(SubSeq(content, open + 1, end - 1))
        ELSE content

ParseErrorObject(content) ==
    JObj(<<JPair(<<"error">>, JStr(<<"Failed to parse AI response">>)),
           JPair(<<"raw_content">>, JStr(content)),
           JPair(<<"summary">>, JStr(<<"Analysis completed but response format was invalid">>)),
           JPair(<<"questions">>, JArr([i \in 1..Len(parse_fallback_questions) |->
                                          JStr(<<parse_fallback_questions[i]>>)])),
           JPair(<<"risk_level">>, JStr(<<"Medium">>))>>)

\* _parse_json_response without its except branch
_parse_json_response_raises(content) ==
    json_loads(ReplaceQuotes(ExtractFenced(Strip(content))))

\* _parse_json_response(content), content a string
_parse_json_response(content) ==
    LET cleaned == ReplaceQuotes(ExtractFenced(Strip(content)))
        parsed == json_loads(cleaned)
    IN  IF parsed.raised = "" THEN parsed
        ELSE Ok(ParseErrorObject(cleaned))

\* ------------------------------------------------------------------------
\* analyze_fraud_data (ai_service.py)
\* ------------------------------------------------------------------------
\* a marker in the words of the formatted text
ZeroCasesAsFormatted == <<"cases:", "0">>

\* the marker of a customer without fraud cases that the heuristic tests for
ZeroCasesMarker == <<"fraud_cases_linked_past_30_days:", "0">>

\* a heuristic that tests for the zero-cases marker first
afd_risk_level_low_first(transaction_data) ==
    IF Contains(Lower(transaction_data), ZeroCasesMarker) THEN "Low"
    ELSE IF Contains(Lower(transaction_data), <<"high", "risk">>) THEN "High"
    ELSE "Medium"

\* the risk level analyze_fraud_data derives from the formatted text
afd_risk_level(transaction_data) ==
    IF Contains(Lower(transaction_data), <<"high", "risk">>) THEN "High"
    ELSE IF Contains(Lower(transaction_data), ZeroCasesMarker) THEN "Low"
    ELSE "Medium"

\* A response of the remote service: the message content (None when
\* is_none) and the usage record.
Response(content, usage) == [is_none |-> FALSE, content |-> content, usage |-> usage]
ResponseNone(usage) == [is_none |-> TRUE, content |-> <<>>, usage |-> usage]

\* the two one-question lists of generate_followup_questions
followup_not_a_list == <<JStr(<<"Can you provide more details about the suspicious activity?">>)>>
followup_failed == <<JStr(<<"Can you provide more details about your account activity?">>)>>

\* generate_followup_questions that returns the whole list
generate_followup_questions_uncapped(request_outcome) ==
    IF request_outcome.raised # "" \/ request_outcome.value.is_none
    THEN followup_failed
    ELSE LET questions == _parse_json_response(request_outcome.value.content)
         IN  IF questions.raised # "" THEN followup_failed
             ELSE IF questions.value.t = "arr" THEN questions.value.a
             ELSE followup_not_a_list

\* generate_followup_questions(customer_id, analysis_summary,
\* conversation_context), request_outcome being what _make_completion_request
\* returned or raised; a content of None makes content.strip() raise, which
\* the except branch catches as it does the failure of the request
generate_followup_questions(request_outcome) ==
    IF request_outcome.raised # "" \/ request_outcome.value.is_none
    THEN followup_failed
    ELSE LET questions == _parse_json_response(request_outcome.value.content)
         IN  IF questions.raised # "" THEN followup_failed
             ELSE IF questions.value.t = "arr"
             THEN SubSeq(questions.value.a, 1, IF Len(questions.value.a) < 5
                                               THEN Len(questions.value.a) ELSE 5)
             ELSE followup_not_a_list

\* the dict analyze_fraud_data returns; error is "" when the key is absent
Analysis(summary, questions, risk_level, error) ==
    [summary |-> summary, questions |-> questions, risk_level |-> risk_level, error |-> error]
NoAnalysis == Analysis(<<>>, <<>>, "", "")

\* the except branch of analyze_fraud_data
afd_fallback(customer_id, error) ==
    Analysis(<<"Analysis", "completed", "for", "customer">> \o customer_id
                 \o <<".", "Multiple", "risk", "factors", "detected", "requiring",
                      "immediate", "customer", "verification.">>,
             afd_fallback_questions, "Medium", error)

\* analyze_fraud_data that keeps the heuristic risk level and takes its
\* questions from the response
analyze_fraud_data_from_text(customer_id, transaction_data, request, draws) ==
    IF request.raised # ""
    THEN [afd_fallback(customer_id, request.raised)
             EXCEPT !.risk_level = afd_risk_level(transaction_data)]
    ELSE IF request.value.is_none THEN afd_fallback(customer_id, "AttributeError")
    ELSE Analysis(Strip(request.value.content),
                  [i \in 1..5 |-> Strip(request.value.content)[1]],
                  afd_risk_level(transaction_data), "")

\* analyze_fraud_data once the completion request has ended with outcome
\* request (a response, or the exception it raised)
analyze_fraud_data(customer_id, transaction_data, request, draws) ==
    IF request.raised # "" THEN afd_fallback(customer_id, request.raised)
    ELSE IF request.value.is_none THEN afd_fallback(customer_id, "AttributeError")
    ELSE Analysis(Strip(request.value.content),
                  _generate_pattern_based_questions(draws),
                  afd_risk_level(transaction_data), "")

\* ------------------------------------------------------------------------
\* The orchestrator (analysis_service.py)
\* ------------------------------------------------------------------------
\* a local risk level that lower-cases the text for both tests
local_risk_level_lowered(data) ==
    IF Contains(Lower(data), <<"high", "risk">>) THEN "High"
    ELSE IF Contains(Lower(data), ZeroCasesMarker) THEN "Low"
    ELSE "Medium"

\* the risk level of the local fallback analysis
local_risk_level(data) ==
    IF Contains(Lower(data), <<"high", "risk">>) THEN "High"
    ELSE IF Contains(data, ZeroCasesMarker) THEN "Low"
    ELSE "Medium"

_create_fallback_ai_analysis(customer_id, data) ==
    Analysis(<<"Technical", "analysis", "completed", "for", "customer">> \o customer_id
                 \o <<".", "Multiple", "risk", "indicators", "detected.", "Manual",
                      "review", "recommended.">>,
             local_fallback_questions, local_risk_level(data), "")

\* A confidence score is the float h/100, less one unit in the last place
\* when below is 1 (0.7 + 0.1 is 0.7999999999999999 in binary floating point).
Score(h, below) == [h |-> h, below |-> below]
base_confidence == 70
confidence_step == 10
fallback_confidence == 30

\* base_confidence += 0.1
AddTenth(score) == Score(score.h + confidence_step, 1)
\* min(base_confidence, 1.0)
MinOne(score) == IF score.h > 100 \/ (score.h = 100 /\ score.below = 0) THEN Score(100, 0) ELSE score

\* a score that leaves the number of questions out
_calculate_confidence_score_two_steps(ai_analysis, customer_data) ==
    LET c0 == Score(base_confidence, 0)
        c1 == IF Len(customer_data.rows) > 0 THEN AddTenth(c0) ELSE c0
        c2 == IF ai_analysis.error = "" THEN AddTenth(c1) ELSE c1
    IN  MinOne(c2)

_calculate_confidence_score(ai_analysis, customer_data) ==
    LET c0 == Score(base_confidence, 0)
        c1 == IF Len(customer_data.rows) > 0 THEN AddTenth(c0) ELSE c0
        c2 == IF ai_analysis.error = "" THEN AddTenth(c1) ELSE c1
        c3 == IF Len(ai_analysis.questions) >= 5 THEN AddTenth(c2) ELSE c2
    IN  MinOne(c3)

\* col.replace('_FLAG', '').title()
FlagTitle(col) ==
    CASE col = "BIOCATCH_FLAG" -> "Biocatch"
      [] col = "GROUP_IB_FLAG" -> "Group_Ib"
      [] col = "SASFM_FLAG" -> "Sasfm"
      [] col = "ISOD_FLAG" -> "Isod"

\* the flags whose cell is exactly the lower-case value
RECURSIVE HighRiskFlags_exact(_, _)
HighRiskFlags_exact(row, cols) ==
    IF cols = <<>> THEN <<>>
    ELSE (IF FlagOf(row, Head(cols)) = HIGH_RISK
          THEN <<<<FlagTitle(Head(cols))>>>> ELSE <<>>)
         \o HighRiskFlags_exact(row, Tail(cols))

RECURSIVE HighRiskFlags(_, _)
HighRiskFlags(row, cols) ==
    IF cols = <<>> THEN <<>>
    ELSE (IF Contains(Lower(FlagOf(row, Head(cols))), <<"high">>)
          THEN <<<<FlagTitle(Head(cols))>>>> ELSE <<>>)
         \o HighRiskFlags(row, Tail(cols))

PLACEHOLDER_FINDING == <<"Customer", "data", "reviewed", "for", "fraud", "indicators">>
MULTIPLE_FINDING == <<"Multiple", "fraud", "risk", "indicators", "identified">>

\* _extract_key_findings; the row carries a numeric fraud-case count here,
\* format_for_ai_analysis having raised otherwise
_extract_key_findings(ai_analysis, customer_data) ==
    LET row == FirstRow(customer_data)
        high_risk_flags == HighRiskFlags(row, RiskColumns)
        flag_findings ==
            IF Len(customer_data.rows) > 0 /\ high_risk_flags # <<>>
            THEN <<<<"High", "risk", "flags", "detected:">> \o JoinComma(high_risk_flags)>>
            ELSE <<>>
        fraud_findings ==
            IF Len(customer_data.rows) > 0 /\ row.fraud.n > 0
            THEN <<<<"Previous", "fraud", "cases:", NumTok(row.fraud.n), "in", "past", "30", "days">>>>
            ELSE <<>>
        summary_text == Lower(ai_analysis.summary)
        ai_findings ==
            IF Contains(summary_text, <<"multiple">>) /\ Contains(summary_text, <<"risk">>)
            THEN <<MULTIPLE_FINDING>> ELSE <<>>
        findings == flag_findings \o fraud_findings \o ai_findings
    IN  IF findings = <<>> THEN <<PLACEHOLDER_FINDING>> ELSE findings

\* red flags that take the cell in any letter case and look at ISOD too
_identify_red_flags_any_case(customer_data) ==
    IF Len(customer_data.rows) = 0 THEN <<>>
    ELSE LET row == FirstRow(customer_data)
         IN  (IF Lower(row.BIOCATCH_FLAG) = HIGH_RISK
              THEN <<<<"BioCatch", "behavioral", "analysis", "flagged", "high", "risk">>>> ELSE <<>>)
             \o (IF Lower(row.GROUP_IB_FLAG) = HIGH_RISK
                 THEN <<<<"Group", "IB", "fraud", "detection", "flagged", "high", "risk">>>> ELSE <<>>)
             \o (IF Lower(row.SASFM_FLAG) = HIGH_RISK
                 THEN <<<<"SASFM", "system", "flagged", "high", "risk">>>> ELSE <<>>)
             \o (IF Lower(row.ISOD_FLAG) = HIGH_RISK
                 THEN <<<<"ISOD", "system", "flagged", "high", "risk">>>> ELSE <<>>)
             \o (IF row.fraud.n > 0
                 THEN <<<<"Customer", "involved", "in", NumTok(row.fraud.n), "fraud",
                          "case(s)", "in", "past", "30", "days">>>> ELSE <<>>)

\* _identify_red_flags(customer_data)
_identify_red_flags(customer_data) ==
    IF Len(customer_data.rows) = 0 THEN <<>>
    ELSE LET row == FirstRow(customer_data)
         IN  (IF row.BIOCATCH_FLAG = HIGH_RISK
              THEN <<<<"BioCatch", "behavioral", "analysis", "flagged", "high", "risk">>>> ELSE <<>>)
             \o (IF row.GROUP_IB_FLAG = HIGH_RISK
                 THEN <<<<"Group", "IB", "fraud", "detection", "flagged", "high", "risk">>>> ELSE <<>>)
             \o (IF row.SASFM_FLAG = HIGH_RISK
                 THEN <<<<"SASFM", "system", "flagged", "high", "risk">>>> ELSE <<>>)
             \o (IF row.fraud.n > 0
                 THEN <<<<"Customer", "involved", "in", NumTok(row.fraud.n), "fraud",
                          "case(s)", "in", "past", "30", "days">>>> ELSE <<>>)

AnyIn(words, found) == (words \cap found) # {}

_categorize_question(question) ==
    LET found == KeywordsIn(question)
    IN  IF AnyIn({"transaction", "payment", "charge", "amount"}, found) THEN "Transaction Pattern"
        ELSE IF AnyIn({"device", "login", "access", "location"}, found) THEN "Account Activity"
        ELSE IF AnyIn({"verify", "confirm", "identity", "contact"}, found) THEN "Identity Verification"
        ELSE IF AnyIn({"behavior", "habit", "routine", "change"}, found) THEN "Behavioral Analysis"
        ELSE IF AnyIn({"security", "communication", "email", "phone"}, found) THEN "Technical Indicators"
        ELSE "Account Activity"

\* a priority that adds the bonus of the category before the floor of 1
_assign_question_priority_floor_last(category, position) ==
    LET bonus == IF category \in {"Identity Verification", "Transaction Pattern"} THEN 1 ELSE 0
    IN  Max(Min(5 - position + bonus, 5), 1)

\* position is the 0-based index of enumerate
_assign_question_priority(category, position) ==
    LET base_priority == Max(5 - position, 1)
    IN  IF category = "Identity Verification" THEN Min(base_priority + 1, 5)
        ELSE IF category = "Transaction Pattern" THEN Min(base_priority + 1, 5)
        ELSE base_priority

_generate_question_context(question, category) ==
    CASE category = "Transaction Pattern" -> "Verify transaction legitimacy and identify unauthorized activity"
      [] category = "Account Activity" -> "Assess account access patterns and potential security breaches"
      [] category = "Identity Verification" -> "Confirm customer identity and account ownership"
      [] category = "Behavioral Analysis" -> "Understand changes in customer banking behavior"
      [] category = "Technical Indicators" -> "Evaluate security threats and suspicious communications"
      [] OTHER -> "Gather information relevant to fraud investigation"

InvestigativeQuestion(question, category, priority, context) ==
    [question |-> question, category |-> category, priority |-> priority, context |-> context]

\* ai_questions[:8], structured one by one
_create_investigative_questions(ai_questions) ==
    [i \in 1..Min(Len(ai_questions), 8) |->
        LET category == _categorize_question(ai_questions[i])
        IN  InvestigativeQuestion(ai_questions[i], category,
                                  _assign_question_priority(category, i - 1),
                                  _generate_question_context(ai_questions[i], category))]

_generate_recommendations(ai_analysis) ==
    IF ai_analysis.risk_level = "High"
    THEN <<"Conduct immediate customer interview to verify account activity",
           "Consider temporary account restrictions until verification complete",
           "Document all customer responses for compliance review",
           "Escalate to fraud investigation team if concerns remain">>
    ELSE IF ai_analysis.risk_level = "Medium"
    THEN <<"Schedule customer call within 24 hours",
           "Review transaction history for additional anomalies",
           "Verify customer contact information",
           "Monitor account for unusual activity">>
    ELSE <<"Document analysis results in customer file",
           "Continue standard account monitoring",
           "Consider routine follow-up in 30 days">>

_generate_next_steps(risk_level) ==
    IF risk_level = "High"
    THEN <<"Complete customer interview using generated questions",
           "Verify all suspicious transactions with customer",
           "Update customer risk profile based on findings",
           "Coordinate with fraud prevention team if needed">>
    ELSE IF risk_level = "Medium"
    THEN <<"Conduct customer verification call",
           "Review customer explanations for any red flags",
           "Update account notes with interview results",
           "Schedule follow-up review in 7-14 days">>
    ELSE <<"Complete routine verification if desired",
           "File analysis results for record keeping",
           "Return to standard account monitoring">>

RiskAssessments == {"Low", "Medium", "High", "Critical"}

FraudAnalysisSummary(customer_id, risk_assessment, confidence_score, key_findings, red_flags, summary) ==
    [customer_id |-> customer_id, risk_assessment |-> risk_assessment,
     confidence_score |-> confidence_score, key_findings |-> key_findings,
     red_flags |-> red_flags, summary |-> summary]
NoSummary == FraudAnalysisSummary(<<>>, "", Score(0, 0), <<>>, <<>>, <<>>)

\* the validators of FraudAnalysisSummary (models/analysis.py)
SummaryValid(s) ==
    /\ s.risk_assessment \in RiskAssessments
    /\ s.confidence_score.h >= 0
    /\ s.confidence_score.h <= 100
    /\ s.key_findings # <<>>

_create_analysis_summary(customer_id, ai_analysis, customer_data) ==
    LET s == FraudAnalysisSummary(customer_id, ai_analysis.risk_level,
                                  _calculate_confidence_score(ai_analysis, customer_data),
                                  _extract_key_findings(ai_analysis, customer_data),
                                  _identify_red_flags(customer_data),
                                  ai_analysis.summary)
    IN  IF SummaryValid(s) THEN Ok(s) ELSE Raise("ValidationError")

AnalysisResponse(customer_id, analysis_summary, investigative_questions, recommended_actions, next_steps) ==
    [customer_id |-> customer_id, analysis_summary |-> analysis_summary,
     investigative_questions |-> investigative_questions,
     recommended_actions |-> recommended_actions, next_steps |-> next_steps]
NoResponse == AnalysisResponse(<<>>, NoSummary, <<>>, <<>>, <<>>)

\* the validator of AnalysisResponse (models/analysis.py)
ResponseValid(r) ==
    /\ Len(r.investigative_questions) >= 5
    /\ Len(r.investigative_questions) <= 8

\* a fallback report that passes the failed analysis on: no red flag, no
\* questions
_create_fallback_analysis_bare(customer_id, error_message) ==
    AnalysisResponse(
        customer_id,
        FraudAnalysisSummary(customer_id, "Medium", Score(fallback_confidence, 0),
                             <<<<"Analysis", "error", "occurred:">> \o error_message>>,
                             <<>>, <<"Manual", "review", "recommended.">>),
        <<>>, <<>>, <<>>)

_create_fallback_analysis(customer_id, error_message) ==
    AnalysisResponse(
        customer_id,
        FraudAnalysisSummary(
            customer_id, "Medium", Score(fallback_confidence, 0),
            <<<<"Analysis", "error", "occurred:">> \o error_message,
              <<"Manual", "review", "required">>>>,
            <<<<"Technical", "analysis", "failure">>>>,
            <<"Unable", "to", "complete", "automated", "analysis", "for", "customer">>
                \o customer_id \o <<".", "Manual", "review", "recommended.">>),
        <<InvestigativeQuestion("Do you believe you are investing with a real firm?",
                                "Identity Verification", 5, "Investment legitimacy assessment"),
          InvestigativeQuestion("Was the contact initiated by you or did they contact you first?",
                                "Behavioral Analysis", 5, "Contact initiation assessment"),
          InvestigativeQuestion("Is there any remote access to your computer or are you currently on a call with them?",
                                "Technical Indicators", 5, "Remote access indicator check"),
          InvestigativeQuestion("Are there multiple payments set up or any future dated payments?",
                                "Transaction Pattern", 4, "Payment pattern assessment"),
          InvestigativeQuestion("Are you hesitant to believe this might be a scam?",
                                "Behavioral Analysis", 4, "Scam resistance assessment")>>,
        <<"Manual fraud analysis required", "Contact technical support">>,
        <<"Escalate to manual review process">>)

\* _get_customer_data: every failure of the lookup is raised again as a
\* plain Exception
_get_customer_data(cache, file, customer_id) ==
    LET r == get_customer_data(cache, file, customer_id)
    IN  IF r.out.raised = "" THEN r
        ELSE IF r.out.raised = "FileNotFoundError"
        THEN [cache |-> r.cache, read |-> r.read,
              out |-> RaiseMsg("Exception", <<"Customer">> \o customer_id
                                   \o <<"not", "found", "in", "database">>)]
        ELSE [cache |-> r.cache, read |-> r.read,
              out |-> RaiseMsg("Exception", <<"Failed", "to", "retrieve", "customer", "data:">>
                                   \o r.out.msg)]

\* ------------------------------------------------------------------------
\* State
\* ------------------------------------------------------------------------
VARIABLES
    now,                \* the wall clock, time.time()
    last_request_time,  \* OpenAIService.last_request_time
    token_usage,        \* OpenAIService.token_usage
    calls,              \* the outbound remote calls issued so far: how many, the
                        \* times of the last two, whether the first pass waited
    service,            \* the responses the remote service may give
    pc,                 \* where each caller is
    attempt,            \* the attempt number of the caller's completion request
    wake,               \* when the caller's sleep or remote call ends
    outcome,            \* how the caller's last completion request ended
    ncalls,             \* completion requests the caller has started
    data_file,          \* the spreadsheet on disk
    data_cache,         \* CustomerDataService._data_cache
    reads,              \* how often pd.read_excel has been called
    rng,                \* the draws the random generator will make next
    request,            \* the arguments of analyze_customer and how it was called
    customer_data,      \* locals of analyze_customer
    formatted_data,
    ai_analysis,
    analysis_summary,
    investigative_questions,
    result,             \* what analyze_customer returned or raised
    failed_step,        \* the step of analyze_customer that raised, if one did
    http_status,        \* the answer of POST /api/analyze/{customer_id}
    content,            \* the argument of _parse_json_response
    parsed,             \* what _parse_json_response returned or raised
    config,             \* OpenAIService.api_key and model
    environ,            \* OPENAI_API_KEY as os.getenv gives it
    call                \* the last call of a function on its own: its name,
                        \* arguments and outcome

clientVars == <<now, last_request_time, token_usage, calls, service, pc, attempt, wake, outcome, ncalls>>
clientRest == <<now, last_request_time, token_usage, calls, service, attempt, wake, outcome, ncalls>>
storeVars == <<data_file, data_cache, reads>>
pipeVars == <<rng, request, customer_data, formatted_data, ai_analysis,
              analysis_summary, investigative_questions, result, failed_step, http_status>>
callVars == <<content, parsed, config, environ, call>>
vars == <<clientVars, storeVars, pipeVars, callVars>>

NoOutcome == [raised |-> "none", msg |-> <<>>, value |-> <<>>]
NoRequest == [customer_id |-> <<>>, via |-> ""]
ZeroUsage == [total_tokens |-> 0, prompt_tokens |-> 0, completion_tokens |-> 0]

\* the history of the calls issued: their number, the times of the last two,
\* and the usage the remote service reported on its successful answers
NoCalls == [n |-> 0, prev |-> 0, last |-> 0, first_waited |-> FALSE, used |-> ZeroUsage]

\* the client as __init__ leaves it, no caller running
ClientInit ==
    /\ now = StartTime
    /\ last_request_time = 0
    /\ token_usage = ZeroUsage
    /\ calls = NoCalls
    /\ attempt = [c \in Callers |-> 0]
    /\ wake = [c \in Callers |-> 0]
    /\ outcome = [c \in Callers |-> NoOutcome]
    /\ ncalls = [c \in Callers |-> 0]

PipeIdle ==
    /\ request = NoRequest
    /\ customer_data = NoTable
    /\ formatted_data = <<>>
    /\ ai_analysis = NoAnalysis
    /\ analysis_summary = NoSummary
    /\ investigative_questions = <<>>
    /\ result = NoOutcome
    /\ failed_step = ""
    /\ http_status = 0

\* a client constructed with a key
Configured == [api_key |-> <<"sk-test">>, model |-> "gpt-3.5-turbo"]
NoCall == [fn |-> "", args |-> <<>>, ret |-> NoOutcome, read |-> FALSE]

ParseIdle ==
    /\ content = <<>>
    /\ parsed = NoOutcome
    /\ config = Configured
    /\ environ = None
    /\ call = NoCall

\* ------------------------------------------------------------------------
\* The completion request: _make_completion_request under tenacity's retry
\* ------------------------------------------------------------------------
\* what the remote service may answer: plain prose, prose with blanks around
\* it, a JSON document, and a message without content
PlainResponse == Response(<<"Customer", "shows", "low", "activity">>, NoUsage)
ProseResponse == Response(<<" ", "Multiple", "risk", "factors", "detected", " ">>, Usage(2, 1, 1))
JsonResponse ==
    Response(<<"{", DQ, "summary", DQ, ":", " ", DQ, "Analysis", " ", "complete", DQ, ",", " ",
               DQ, "questions", DQ, ":", " ", "[", DQ, "Q1", DQ, "]", ",", " ",
               DQ, "risk_level", DQ, ":", " ", DQ, "Medium", DQ, "}">>, Usage(1, 1, 0))
EmptyResponse == ResponseNone(Usage(1, 0, 1))
Responses == {PlainResponse, ProseResponse, JsonResponse, EmptyResponse}

\* the exception tenacity raises when the last attempt has failed: the
\* decorator does not set reraise, so the OpenAIError of the attempt is
\* wrapped in a RetryError
retry_exhausted == "RetryError"

\* the call leaves the client: _rate_limit has recorded the time
IssueCall(c, waited) ==
    /\ last_request_time' = now
    /\ calls' = [n |-> calls.n + 1, prev |-> calls.last, last |-> now,
                 first_waited |-> IF calls.n = 0 THEN waited ELSE calls.first_waited,
                 used |-> calls.used]
    /\ pc' = [pc EXCEPT ![c] = "in_flight"]
    /\ \E d \in 0..MaxLatency : wake' = [wake EXCEPT ![c] = now + d]

\* _rate_limit up to its await: either there is nothing to wait for, and
\* the call is issued, or the caller goes to sleep
RateLimit(c) ==
    /\ pc[c] = "rate_limit"
    /\ LET wait_time == rate_limit_wait(now, last_request_time)
       IN  IF wait_time > 0
           THEN /\ pc' = [pc EXCEPT ![c] = "sleeping"]
                /\ wake' = [wake EXCEPT ![c] = now + wait_time]
                /\ UNCHANGED <<last_request_time, calls>>
           ELSE IssueCall(c, FALSE)
    /\ UNCHANGED <<now, token_usage, attempt, outcome, ncalls, service, storeVars, pipeVars, callVars>>

\* _rate_limit after asyncio.sleep
RateLimitWake(c) ==
    /\ pc[c] = "sleeping"
    /\ now >= wake[c]
    /\ IssueCall(c, TRUE)
    /\ UNCHANGED <<now, token_usage, attempt, outcome, ncalls, service, storeVars, pipeVars, callVars>>

\* where the caller continues when its completion request has ended
AfterRequest(c) ==
    IF request.via = "" THEN "ready"
    ELSE IF request.via = "followups" THEN "followups_return"
    ELSE "afd_return"

\* the usage reported so far, with that of one more response
Reported(used, response) ==
    [k \in DOMAIN used |-> used[k] + (IF response.usage.present THEN response.usage[k] ELSE 0)]

\* the remote call returns a response
RemoteSuccess(c) ==
    /\ pc[c] = "in_flight"
    /\ now >= wake[c]
    /\ \E response \in service :
        /\ token_usage' = _update_token_usage(token_usage, response.usage)
        /\ outcome' = [outcome EXCEPT ![c] = Ok(response)]
        /\ calls' = [calls EXCEPT !.used = Reported(calls.used, response)]
    /\ pc' = [pc EXCEPT ![c] = AfterRequest(c)]
    /\ UNCHANGED <<now, last_request_time, attempt, wake, ncalls, service, storeVars, pipeVars, callVars>>

\* the remote call raises: the attempt raises OpenAIError, and tenacity
\* sleeps before the next attempt or gives up
RemoteFailure(c) ==
    /\ pc[c] = "in_flight"
    /\ now >= wake[c]
    /\ IF attempt[c] < stop_after_attempt
       THEN /\ pc' = [pc EXCEPT ![c] = "backoff"]
            /\ wake' = [wake EXCEPT ![c] = now + wait_exponential(attempt[c])]
            /\ UNCHANGED outcome
       ELSE /\ pc' = [pc EXCEPT ![c] = AfterRequest(c)]
            /\ outcome' = [outcome EXCEPT ![c] = Raise(retry_exhausted)]
            /\ UNCHANGED wake
    /\ UNCHANGED <<now, last_request_time, token_usage, calls, attempt, ncalls, service, storeVars, pipeVars, callVars>>

\* tenacity calls the function again
NextAttempt(c) ==
    /\ pc[c] = "backoff"
    /\ now >= wake[c]
    /\ attempt' = [attempt EXCEPT ![c] = attempt[c] + 1]
    /\ pc' = [pc EXCEPT ![c] = "rate_limit"]
    /\ UNCHANGED <<now, last_request_time, token_usage, calls, wake, outcome, ncalls, service, storeVars, pipeVars, callVars>>

\* time passes while a caller sleeps or waits for the remote service
Tick ==
    /\ now < MaxTime
    /\ \E c \in Callers : pc[c] \in {"sleeping", "in_flight", "backoff"} /\ wake[c] > now
    /\ now' = now + 1
    /\ UNCHANGED <<last_request_time, token_usage, calls, service, pc, attempt, wake, outcome, ncalls,
                   storeVars, pipeVars, callVars>>

\* a caller starts a completion request of its own
RequestStart(c) ==
    /\ pc[c] = "ready"
    /\ ncalls[c] < MaxCalls
    /\ ncalls' = [ncalls EXCEPT ![c] = ncalls[c] + 1]
    /\ attempt' = [attempt EXCEPT ![c] = 1]
    /\ outcome' = [outcome EXCEPT ![c] = NoOutcome]
    /\ pc' = [pc EXCEPT ![c] = "rate_limit"]
    /\ UNCHANGED <<now, last_request_time, token_usage, calls, wake, service, storeVars, pipeVars, callVars>>

\* no client constructed yet
NotConstructed == [api_key |-> None, model |-> ""]

\* get_usage_stats() on a constructed client
GetUsageStats ==
    /\ config # NotConstructed
    /\ call.fn # "get_usage_stats"
    /\ call' = [fn |-> "get_usage_stats", args |-> call.args,
                ret |-> Ok(get_usage_stats(config, token_usage)), read |-> FALSE]
    /\ UNCHANGED <<clientVars, storeVars, pipeVars, content, parsed, config, environ>>

ClientStep(c) ==
    \/ RateLimit(c)
    \/ RateLimitWake(c)
    \/ RemoteSuccess(c)
    \/ RemoteFailure(c)
    \/ NextAttempt(c)

NextClient ==
    \/ \E c \in Callers : RequestStart(c)
    \/ \E c \in Callers : ClientStep(c)
    \/ Tick

\* callers that share one client and issue completion requests
InitClient ==
    /\ ClientInit
    /\ pc = [c \in Callers |-> "ready"]
    /\ service = {PlainResponse, ProseResponse}
    /\ data_file = MissingFile
    /\ data_cache = NoTable
    /\ reads = 0
    /\ rng = <<>>
    /\ PipeIdle
    /\ ParseIdle

SpecClient == InitClient /\ [][NextClient]_vars

\* one caller that issues its requests one after another
InitSeq ==
    /\ ClientInit
    /\ pc = [c \in Callers |-> IF c = 1 THEN "ready" ELSE "off"]
    /\ service = {PlainResponse, ProseResponse}
    /\ data_file = MissingFile
    /\ data_cache = NoTable
    /\ reads = 0
    /\ rng = <<>>
    /\ PipeIdle
    /\ ParseIdle

SpecSeq == InitSeq /\ [][NextClient]_vars

\* ------------------------------------------------------------------------
\* analyze_customer (analysis_service.py) behind POST /api/analyze
\* ------------------------------------------------------------------------
\* the caller that runs the analysis
Analyst == 1

\* identifiers a request may carry: the stored one, the stored one with
\* blanks around it, an unknown one, the empty string, blanks only
RequestIds == {<<"12345">>, <<" ", "12345", " ">>, <<"99999">>, <<>>, <<" ", " ">>}

\* the data files: each analysed row under the proper column name; the scenario row under an alias and under no known
\* name; two rows of one customer; no file; an unreadable file
Files ==
    {Table("Customer_CGID", <<r>>) : r \in AnalysedRows}
    \cup {Table("customer_id", <<ScenarioRow>>), Table("", <<ScenarioRow>>),
          Table("Customer_CGID", <<[ScenarioRow EXCEPT !.id = "67890"], ScenarioRow>>),
          MissingFile, CorruptFile}

\* an except branch that raises again
FallbackReraises(step, error_message) ==
    /\ failed_step' = step
    /\ result' = RaiseMsg("Exception", error_message)
    /\ pc' = [pc EXCEPT ![Analyst] = "returned"]

\* an except branch that records the error and lets the pipeline go on
Fallback_keeps_running(step, error_message) ==
    /\ failed_step' = step
    /\ result' = Ok(_create_fallback_analysis(request.customer_id, error_message))
    /\ pc' = [pc EXCEPT ![Analyst] = "perform_ai"]

\* analyze_customer's except branch
Fallback(step, error_message) ==
    /\ failed_step' = step
    /\ result' = Ok(_create_fallback_analysis(request.customer_id, error_message))
    /\ pc' = [pc EXCEPT ![Analyst] = "returned"]

\* the endpoint rejects a blank identifier
ApiReject ==
    /\ pc[Analyst] = "idle"
    /\ \E customer_id \in RequestIds :
        /\ IsBlankId(customer_id)
        /\ request' = [customer_id |-> customer_id, via |-> "api"]
    /\ http_status' = 400
    /\ pc' = [pc EXCEPT ![Analyst] = "done"]
    /\ UNCHANGED <<clientRest, storeVars, rng, customer_data, formatted_data, ai_analysis,
                   analysis_summary, investigative_questions, result, failed_step, callVars>>

\* the endpoint passes the stripped identifier on
ApiAnalyze ==
    /\ pc[Analyst] = "idle"
    /\ \E customer_id \in RequestIds :
        /\ ~IsBlankId(customer_id)
        /\ request' = [customer_id |-> Strip(customer_id), via |-> "api"]
    /\ pc' = [pc EXCEPT ![Analyst] = "get_customer_data"]
    /\ UNCHANGED <<clientRest, storeVars, rng, customer_data, formatted_data, ai_analysis,
                   analysis_summary, investigative_questions, result, http_status, failed_step, callVars>>

\* analyze_customer called directly, as the chat endpoint and tests do
ServiceAnalyze ==
    /\ pc[Analyst] = "idle"
    /\ \E customer_id \in RequestIds :
        request' = [customer_id |-> customer_id, via |-> "service"]
    /\ pc' = [pc EXCEPT ![Analyst] = "get_customer_data"]
    /\ UNCHANGED <<clientRest, storeVars, rng, customer_data, formatted_data, ai_analysis,
                   analysis_summary, investigative_questions, result, http_status, failed_step, callVars>>

\* step 1: _get_customer_data
GetCustomerData ==
    /\ pc[Analyst] = "get_customer_data"
    /\ LET r == _get_customer_data(data_cache, data_file, request.customer_id)
       IN  /\ data_cache' = r.cache
           /\ reads' = reads + (IF r.read THEN 1 ELSE 0)
           /\ IF r.out.raised = ""
              THEN /\ customer_data' = r.out.value
                   /\ pc' = [pc EXCEPT ![Analyst] = "format"]
                   /\ UNCHANGED <<result, failed_step>>
              ELSE /\ Fallback(pc[Analyst], r.out.msg)
                   /\ UNCHANGED customer_data
    /\ UNCHANGED <<clientRest, data_file, rng, request, formatted_data, ai_analysis,
                   analysis_summary, investigative_questions, http_status, callVars>>

\* step 2: format_for_ai_analysis
Format ==
    /\ pc[Analyst] = "format"
    /\ LET out == format_for_ai_analysis(customer_data)
       IN  IF out.raised = ""
           THEN /\ formatted_data' = out.value
                /\ pc' = [pc EXCEPT ![Analyst] = "perform_ai"]
                /\ UNCHANGED <<result, failed_step>>
           ELSE /\ Fallback(pc[Analyst], out.msg)
                /\ UNCHANGED formatted_data
    /\ UNCHANGED <<clientRest, storeVars, rng, request, customer_data, ai_analysis,
                   analysis_summary, investigative_questions, http_status, callVars>>

\* step 3: _perform_ai_analysis calls analyze_fraud_data, which issues its
\* completion request
PerformAI ==
    /\ pc[Analyst] = "perform_ai"
    /\ pc' = [pc EXCEPT ![Analyst] = "rate_limit"]
    /\ attempt' = [attempt EXCEPT ![Analyst] = 1]
    /\ ncalls' = [ncalls EXCEPT ![Analyst] = ncalls[Analyst] + 1]
    /\ UNCHANGED <<now, last_request_time, token_usage, calls, service, wake, outcome,
                   storeVars, pipeVars, callVars>>

\* step 3 when analyze_fraud_data itself raises: the local fallback analysis
PerformAIFault ==
    /\ pc[Analyst] = "perform_ai"
    /\ ai_analysis' = _create_fallback_ai_analysis(request.customer_id, formatted_data)
    /\ pc' = [pc EXCEPT ![Analyst] = "summary"]
    /\ UNCHANGED <<clientRest, storeVars, rng, request, customer_data, formatted_data,
                   analysis_summary, investigative_questions, result, http_status, failed_step, callVars>>

\* analyze_fraud_data after its completion request; the questions take
\* five draws of the random generator
AnalyzeFraudDataReturn ==
    /\ pc[Analyst] = "afd_return"
    /\ ai_analysis' = analyze_fraud_data(request.customer_id, formatted_data,
                                         outcome[Analyst], SubSeq(rng, 1, 5))
    /\ rng' = IF outcome[Analyst].raised = "" /\ ~outcome[Analyst].value.is_none
              THEN SubSeq(rng, 6, Len(rng)) ELSE rng
    /\ pc' = [pc EXCEPT ![Analyst] = IF request.via = "client" THEN "done" ELSE "summary"]
    /\ UNCHANGED <<clientRest, storeVars, request, customer_data, formatted_data,
                   analysis_summary, investigative_questions, result, http_status, failed_step, callVars>>

\* step 4: _create_analysis_summary
CreateSummary ==
    /\ pc[Analyst] = "summary"
    /\ LET out == _create_analysis_summary(request.customer_id, ai_analysis, customer_data)
       IN  IF out.raised = ""
           THEN /\ analysis_summary' = out.value
                /\ pc' = [pc EXCEPT ![Analyst] = "questions"]
                /\ UNCHANGED <<result, failed_step>>
           ELSE /\ Fallback(pc[Analyst], out.msg)
                /\ UNCHANGED analysis_summary
    /\ UNCHANGED <<clientRest, storeVars, rng, request, customer_data, formatted_data,
                   ai_analysis, investigative_questions, http_status, callVars>>

\* step 5: _create_investigative_questions
CreateQuestions ==
    /\ pc[Analyst] = "questions"
    /\ investigative_questions' = _create_investigative_questions(ai_analysis.questions)
    /\ pc' = [pc EXCEPT ![Analyst] = "respond"]
    /\ UNCHANGED <<clientRest, storeVars, rng, request, customer_data, formatted_data,
                   ai_analysis, analysis_summary, result, http_status, failed_step, callVars>>

\* steps 6 and 7: recommendations, next steps and the response model
Respond ==
    /\ pc[Analyst] = "respond"
    /\ LET response == AnalysisResponse(request.customer_id, analysis_summary,
                                        investigative_questions,
                                        _generate_recommendations(ai_analysis),
                                        _generate_next_steps(ai_analysis.risk_level))
       IN  IF ResponseValid(response)
           THEN /\ result' = Ok(response)
                /\ pc' = [pc EXCEPT ![Analyst] = "returned"]
                /\ UNCHANGED failed_step
           ELSE Fallback(pc[Analyst], <<"ValidationError">>)
    /\ UNCHANGED <<clientRest, storeVars, rng, request, customer_data, formatted_data,
                   ai_analysis, analysis_summary, investigative_questions, http_status, callVars>>

\* an exception that escapes one of steps 3 to 7
StepFault ==
    /\ pc[Analyst] \in {"perform_ai", "summary", "questions", "respond"}
    /\ Fallback(pc[Analyst], <<"Exception">>)
    /\ UNCHANGED <<clientRest, storeVars, rng, request, customer_data, formatted_data,
                   ai_analysis, analysis_summary, investigative_questions, http_status, callVars>>

\* the status the endpoint answers for what analyze_customer did
StatusOf(res) ==
    IF res.raised = "" THEN 200
    ELSE IF res.raised = "FileNotFoundError" THEN 404
    ELSE 500

\* analyze_customer has returned; the endpoint answers
Finish ==
    /\ pc[Analyst] = "returned"
    /\ http_status' = IF request.via = "api" THEN StatusOf(result) ELSE http_status
    /\ pc' = [pc EXCEPT ![Analyst] = "done"]
    /\ UNCHANGED <<clientRest, storeVars, rng, request, customer_data, formatted_data,
                   ai_analysis, analysis_summary, investigative_questions, result, failed_step, callVars>>

PipelineStep ==
    \/ ApiReject
    \/ ApiAnalyze
    \/ ServiceAnalyze
    \/ GetCustomerData
    \/ Format
    \/ PerformAI
    \/ PerformAIFault
    \/ AnalyzeFraudDataReturn
    \/ CreateSummary
    \/ CreateQuestions
    \/ Respond
    \/ StepFault
    \/ Finish

\* one analysis issues one completion request on a client that has not
\* been used within the interval, so its throttle never sleeps
Next ==
    \/ PipelineStep
    \/ RateLimit(Analyst)
    \/ RemoteSuccess(Analyst)
    \/ RemoteFailure(Analyst)
    \/ NextAttempt(Analyst)
    \/ Tick

\* the draws of the generator: five per call, one per pattern
FewDraws == {<<0, 0, 0, 0, 0>>, <<1, 2, 3, 4, 0>>}
SomeDraws == [1..5 -> 0..MaxDraw]

InitPipeline ==
    /\ ClientInit
    /\ pc = [c \in Callers |-> IF c = Analyst THEN "idle" ELSE "off"]
    /\ service = Responses
    /\ data_cache = NoTable
    /\ reads = 0
    /\ PipeIdle
    /\ ParseIdle

\* one analysis of any stored row
Init ==
    /\ InitPipeline
    /\ data_file \in Files
    /\ rng \in FewDraws

Spec == Init /\ [][Next]_vars

\* one analysis of the scenario row under each of the draws up to MaxDraw
InitDraws ==
    /\ InitPipeline
    /\ data_file = Table("Customer_CGID", <<ScenarioRow>>)
    /\ rng \in SomeDraws

SpecDraws == InitDraws /\ [][Next]_vars

\* ------------------------------------------------------------------------
\* _parse_json_response on its own
\* ------------------------------------------------------------------------
\* the tokens raw texts are enumerated over
ParseAlphabet == {"{", "}", "[", "]", DQ, SQ, ":", ",", Blank, "questions", "1",
                  FENCE_JSON, FENCE, "text"}

\* every text of up to MaxTextLen tokens
ShortTexts == UNION {[1..k -> ParseAlphabet] : k \in 0..MaxTextLen}

OneQuestionDoc ==
    <<"{", DQ, "questions", DQ, ":", " ", "[", DQ, "Q1", DQ, "]", "}">>
FiveQuestionDoc ==
    <<"{", SQ, "questions", SQ, ":", "[", "1", ",", "1", ",", "1", ",", "1", ",", "1", "]", "}">>
FencedDoc == <<"Here", " ", "you", " ", "go", FENCE_JSON>> \o OneQuestionDoc \o <<FENCE, "bye">>
ApostropheDoc ==
    <<"{", DQ, "summary", DQ, ":", DQ, "customer", SQ, "s", " ", "account", DQ, "}">>

\* longer texts: the responses of the remote service and documents with a
\* questions list, fenced, single-quoted, and with an apostrophe in a string
SampleTexts == {PlainResponse.content, ProseResponse.content, JsonResponse.content,
                OneQuestionDoc, FiveQuestionDoc, FencedDoc, ApostropheDoc}

Parse ==
    /\ parsed = NoOutcome
    /\ parsed' = _parse_json_response(content)
    /\ UNCHANGED <<clientVars, storeVars, pipeVars, content, config, environ, call>>

NextParse == Parse

InitParse ==
    /\ ClientInit
    /\ pc = [c \in Callers |-> "off"]
    /\ service = {}
    /\ data_file = MissingFile
    /\ data_cache = NoTable
    /\ reads = 0
    /\ rng = <<>>
    /\ PipeIdle
    /\ content \in ShortTexts \cup SampleTexts
    /\ parsed = NoOutcome
    /\ config = Configured
    /\ environ = None
    /\ call = NoCall

SpecParse == InitParse /\ [][NextParse]_vars

\* ------------------------------------------------------------------------
\* analyze_fraud_data called on the client directly
\* ------------------------------------------------------------------------
\* texts handed to analyze_fraud_data: formatted rows, and texts that carry
\* the zero-cases marker, the words high risk in either case, both, neither
AfdTexts ==
    {format_for_ai_analysis(Table("Customer_CGID", <<r>>)).value : r \in {ScenarioRow, UnknownRow}}
    \cup {<<"fraud_cases_linked_past_30_days:", "0">>,
          <<"Fraud_Cases_Linked_Past_30_Days:", "0">>,
          <<"fraud_cases_linked_past_30_days:", "1">>,
          <<"flag:", "high", "risk">>,
          <<"flag:", "HIGH", "RISK">>,
          <<"flag:", "High", "Risk", "fraud_cases_linked_past_30_days:", "0">>,
          <<"flag:", "low", "risk">>,
          <<>>}

\* the caller enters analyze_fraud_data and issues the completion request
AnalyzeFraudDataCall ==
    /\ pc[Analyst] = "idle"
    /\ request' = [customer_id |-> <<"12345">>, via |-> "client"]
    /\ \E transaction_data \in AfdTexts : formatted_data' = transaction_data
    /\ pc' = [pc EXCEPT ![Analyst] = "rate_limit"]
    /\ attempt' = [attempt EXCEPT ![Analyst] = 1]
    /\ ncalls' = [ncalls EXCEPT ![Analyst] = ncalls[Analyst] + 1]
    /\ UNCHANGED <<now, last_request_time, token_usage, calls, service, wake, outcome,
                   storeVars, rng, customer_data, ai_analysis, analysis_summary,
                   investigative_questions, result, failed_step, http_status, callVars>>

\* _create_fallback_ai_analysis called on the text of the request
LocalFallbackCall ==
    /\ request.via = "client"
    /\ call.fn = ""
    /\ call' = [fn |-> "_create_fallback_ai_analysis", args |-> <<request.customer_id>>,
                ret |-> Ok(_create_fallback_ai_analysis(request.customer_id, formatted_data)),
                read |-> FALSE]
    /\ UNCHANGED <<clientVars, storeVars, pipeVars, content, parsed, config, environ>>

NextAfd ==
    \/ AnalyzeFraudDataCall
    \/ LocalFallbackCall
    \/ RateLimit(Analyst)
    \/ RemoteSuccess(Analyst)
    \/ RemoteFailure(Analyst)
    \/ NextAttempt(Analyst)
    \/ Tick
    \/ AnalyzeFraudDataReturn

InitAfd ==
    /\ InitPipeline
    /\ data_file = MissingFile
    /\ rng \in FewDraws

SpecAfd == InitAfd /\ [][NextAfd]_vars

\* ------------------------------------------------------------------------
\* The data store (data_service.py) called on its own
\* ------------------------------------------------------------------------
OtherRow == [ScenarioRow EXCEPT !.id = "67890", !.BIOCATCH_FLAG = LOW_RISK]
LetterRow == [ScenarioRow EXCEPT !.id = "AB1"]

\* tables under the proper column, under an alias and under no known
\* column, with a customer on two rows and with an identifier in letters;
\* a sheet with numbers for its header; no file; an unreadable file
StoreFiles ==
    {Table("Customer_CGID", <<ScenarioRow, OtherRow, UnknownRow>>),
     Table("Customer_CGID", <<LetterRow>>),
     Table("customer_id", <<ScenarioRow, OtherRow>>),
     Table("", <<ScenarioRow>>),
     NumericHeaderFile(<<OtherRow>>),
     MissingFile, CorruptFile}

LookupIds == RequestIds \cup {<<"67890">>, <<"AB1">>, <<"ab1">>}

\* a call of the store: the cache and the read count follow the call
StoreCall(fn, args, r) ==
    /\ reads < MaxReads
    /\ data_cache' = r.cache
    /\ reads' = reads + (IF r.read THEN 1 ELSE 0)
    /\ call' = [fn |-> fn, args |-> args, ret |-> r.out, read |-> r.read]
    /\ UNCHANGED <<clientVars, data_file, pipeVars, content, parsed, config, environ>>

LoadData ==
    \E force_reload \in BOOLEAN :
        StoreCall("load_data", <<force_reload>>, load_data(data_cache, data_file, force_reload))

Lookup ==
    \E customer_id \in LookupIds :
        StoreCall("get_customer_data", customer_id,
                  get_customer_data(data_cache, data_file, customer_id))

ListIds == StoreCall("get_available_customers", <<>>, get_available_customers(data_cache, data_file))

DataInfo == StoreCall("get_data_info", <<>>, get_data_info(data_cache, data_file))

\* the spreadsheet is replaced, removed or damaged between two calls
FileChange ==
    /\ \E file \in StoreFiles : file # data_file /\ data_file' = file
    /\ UNCHANGED <<clientVars, data_cache, reads, pipeVars, callVars>>

NextStore ==
    \/ LoadData
    \/ Lookup
    \/ ListIds
    \/ DataInfo
    \/ FileChange

InitStore ==
    /\ ClientInit
    /\ pc = [c \in Callers |-> "off"]
    /\ service = {}
    /\ data_file \in StoreFiles
    /\ data_cache = NoTable
    /\ reads = 0
    /\ rng = <<>>
    /\ PipeIdle
    /\ ParseIdle

SpecStore == InitStore /\ [][NextStore]_vars

\* ------------------------------------------------------------------------
\* format_for_ai_analysis called on its own
\* ------------------------------------------------------------------------
\* one row of each kind under the proper column and under an alias, and
\* the empty frame
FormatInputs ==
    {Table(idcol, <<r>>) : idcol \in {"Customer_CGID", "customer_id"}, r \in Rows}
    \cup {Table("Customer_CGID", <<>>)}

FormatCall ==
    /\ call.fn = ""
    /\ call' = [fn |-> "format_for_ai_analysis", args |-> <<>>,
                ret |-> format_for_ai_analysis(customer_data), read |-> FALSE]
    /\ UNCHANGED <<clientVars, storeVars, pipeVars, content, parsed, config, environ>>

NextFormat == FormatCall

InitFormat ==
    /\ ClientInit
    /\ pc = [c \in Callers |-> "off"]
    /\ service = {}
    /\ data_file = MissingFile
    /\ data_cache = NoTable
    /\ reads = 0
    /\ rng = <<>>
    /\ request = NoRequest
    /\ customer_data \in FormatInputs
    /\ formatted_data = <<>>
    /\ ai_analysis = NoAnalysis
    /\ analysis_summary = NoSummary
    /\ investigative_questions = <<>>
    /\ result = NoOutcome
    /\ failed_step = ""
    /\ http_status = 0
    /\ ParseIdle

SpecFormat == InitFormat /\ [][NextFormat]_vars

\* ------------------------------------------------------------------------
\* Constructing the client and reading its statistics
\* ------------------------------------------------------------------------
Keys == {None, Str(""), Str(" "), placeholder, Str("sk-a"), Str("sk-b")}
Models == {"gpt-3.5-turbo", "gpt-4", "gpt-4o"}

\* OpenAIService(api_key, model)
Construct(api_key, model) ==
    /\ config = NotConstructed
    /\ call.fn = ""
    /\ LET r == OpenAIService_init(api_key, model, environ)
       IN  /\ call' = [fn |-> "__init__", args |-> <<api_key, model>>, ret |-> r,
                       read |-> FALSE]
           /\ IF r.raised = ""
              THEN /\ config' = r.value
                   /\ last_request_time' = 0
                   /\ token_usage' = ZeroUsage
              ELSE UNCHANGED <<config, last_request_time, token_usage>>
    /\ UNCHANGED <<now, calls, service, pc, attempt, wake, outcome, ncalls,
                   storeVars, pipeVars, content, parsed, environ>>

NextConstruct ==
    \/ \E api_key \in Keys, model \in Models : Construct(api_key, model)
    \/ GetUsageStats

InitConstruct ==
    /\ ClientInit
    /\ pc = [c \in Callers |-> "off"]
    /\ service = {}
    /\ data_file = MissingFile
    /\ data_cache = NoTable
    /\ reads = 0
    /\ rng = <<>>
    /\ PipeIdle
    /\ content = <<>>
    /\ parsed = NoOutcome
    /\ config = NotConstructed
    /\ environ \in Keys
    /\ call = NoCall

SpecConstruct == InitConstruct /\ [][NextConstruct]_vars

\* ------------------------------------------------------------------------
\* generate_followup_questions called on the client
\* ------------------------------------------------------------------------
\* a JSON array of n question strings, as the tokens of the content
RECURSIVE ArrayItems(_)
ArrayItems(n) ==
    IF n = 0 THEN <<>>
    ELSE (IF n = 1 THEN <<>> ELSE ArrayItems(n - 1) \o <<",", " ">>)
         \o <<DQ, "Question", " ", NumTok(n), DQ>>
ArrayDoc(n) == <<"[">> \o ArrayItems(n) \o <<"]">>

\* what the service may answer: arrays shorter and longer than five, an
\* array in single quotes, an object, a string, prose, and no content
FollowupResponses ==
    {Response(ArrayDoc(n), Usage(1, 1, 0)) : n \in {0, 3, 5, 6}}
    \cup {Response(<<"[", SQ, "Q1", SQ, "]">>, NoUsage),
          Response(<<"{", DQ, "questions", DQ, ":", " ", "[", DQ, "Q1", DQ, "]", "}">>, NoUsage),
          Response(<<DQ, "Q1", DQ>>, NoUsage),
          ProseResponse,
          EmptyResponse}

\* the caller enters generate_followup_questions and issues its request
FollowupsCall ==
    /\ pc[Analyst] = "idle"
    /\ \E customer_id \in RequestIds :
          request' = [customer_id |-> customer_id, via |-> "followups"]
    /\ pc' = [pc EXCEPT ![Analyst] = "rate_limit"]
    /\ attempt' = [attempt EXCEPT ![Analyst] = 1]
    /\ ncalls' = [ncalls EXCEPT ![Analyst] = ncalls[Analyst] + 1]
    /\ UNCHANGED <<now, last_request_time, token_usage, calls, service, wake, outcome,
                   storeVars, rng, customer_data, formatted_data, ai_analysis,
                   analysis_summary, investigative_questions, result, failed_step,
                   http_status, callVars>>

\* generate_followup_questions after its completion request
FollowupsReturn ==
    /\ pc[Analyst] = "followups_return"
    /\ call' = [fn |-> "generate_followup_questions", args |-> <<request.customer_id>>,
                ret |-> Ok(generate_followup_questions(outcome[Analyst])), read |-> FALSE]
    /\ pc' = [pc EXCEPT ![Analyst] = "done"]
    /\ UNCHANGED <<clientRest, storeVars, pipeVars, content, parsed, config, environ>>

NextFollowups ==
    \/ FollowupsCall
    \/ RateLimit(Analyst)
    \/ RemoteSuccess(Analyst)
    \/ RemoteFailure(Analyst)
    \/ NextAttempt(Analyst)
    \/ Tick
    \/ FollowupsReturn

InitFollowups ==
    /\ ClientInit
    /\ pc = [c \in Callers |-> IF c = Analyst THEN "idle" ELSE "off"]
    /\ service = FollowupResponses
    /\ data_file = MissingFile
    /\ data_cache = NoTable
    /\ reads = 0
    /\ rng = <<>>
    /\ PipeIdle
    /\ ParseIdle

SpecFollowups == InitFollowups /\ [][NextFollowups]_vars

\* ------------------------------------------------------------------------
\* _calculate_confidence_score called on its own
\* ------------------------------------------------------------------------
\* analyses with and without the error key, with 0 to MaxQuestions questions
ConfidenceAnalyses ==
    {Analysis(<<"Analysis", "complete">>, [i \in 1..n |-> "Q"], risk_level, error) :
        n \in 0..MaxQuestions, risk_level \in {"Low", "Medium", "High"},
        error \in {"", "RetryError"}}

\* the empty frame and frames of one row
ConfidenceRecords ==
    {Table("Customer_CGID", <<>>), Table("Customer_CGID", <<ScenarioRow>>),
     Table("customer_id", <<UnknownRow>>)}

ConfidenceCall ==
    /\ call.fn = ""
    /\ call' = [fn |-> "_calculate_confidence_score", args |-> <<>>,
                ret |-> Ok(_calculate_confidence_score(ai_analysis, customer_data)),
                read |-> FALSE]
    /\ UNCHANGED <<clientVars, storeVars, pipeVars, content, parsed, config, environ>>

NextConfidence == ConfidenceCall

InitConfidence ==
    /\ ClientInit
    /\ pc = [c \in Callers |-> "off"]
    /\ service = {}
    /\ data_file = MissingFile
    /\ data_cache = NoTable
    /\ reads = 0
    /\ rng = <<>>
    /\ request = NoRequest
    /\ customer_data \in ConfidenceRecords
    /\ formatted_data = <<>>
    /\ ai_analysis \in ConfidenceAnalyses
    /\ analysis_summary = NoSummary
    /\ investigative_questions = <<>>
    /\ result = NoOutcome
    /\ failed_step = ""
    /\ http_status = 0
    /\ ParseIdle

SpecConfidence == InitConfidence /\ [][NextConfidence]_vars

\* ------------------------------------------------------------------------
\* Usage accounting: two callers on one client, and get_usage_stats
\* ------------------------------------------------------------------------
\* the first caller issues up to MaxCalls requests one after another, the
\* second issues one request alongside; the statistics are read once, at
\* any moment
NextUsage ==
    \/ \E c \in Callers : RequestStart(c) /\ (c = 1 \/ ncalls[c] = 0)
    \/ \E c \in Callers : ClientStep(c)
    \/ Tick
    \/ GetUsageStats

SpecUsage == InitClient /\ [][NextUsage]_vars

\* ------------------------------------------------------------------------
\* _create_investigative_questions called on its own
\* ------------------------------------------------------------------------
\* one question of the source for each of three categories: Identity
\* Verification, Transaction Pattern and Account Activity
RawQuestions == {"Can you verify your recent account activity?",
                 "Are there multiple payments set up or any future dated payments?",
                 "Have you noticed any unusual or unauthorized account access recently?"}

\* every list of up to MaxRaw of them
RawLists == UNION {[1..k -> RawQuestions] : k \in 0..MaxRaw}

CreateQuestionsCall ==
    /\ call.fn = ""
    /\ call' = [fn |-> "_create_investigative_questions", args |-> <<>>,
                ret |-> Ok(_create_investigative_questions(ai_analysis.questions)),
                read |-> FALSE]
    /\ UNCHANGED <<clientVars, storeVars, pipeVars, content, parsed, config, environ>>

NextQuestions == CreateQuestionsCall

InitQuestions ==
    /\ ClientInit
    /\ pc = [c \in Callers |-> "off"]
    /\ service = {}
    /\ data_file = MissingFile
    /\ data_cache = NoTable
    /\ reads = 0
    /\ rng = <<>>
    /\ request = NoRequest
    /\ customer_data = NoTable
    /\ formatted_data = <<>>
    /\ \E ai_questions \in RawLists :
          ai_analysis = Analysis(<<>>, ai_questions, "Medium", "")
    /\ analysis_summary = NoSummary
    /\ investigative_questions = <<>>
    /\ result = NoOutcome
    /\ failed_step = ""
    /\ http_status = 0
    /\ ParseIdle

SpecQuestions == InitQuestions /\ [][NextQuestions]_vars

\* ------------------------------------------------------------------------
\* Properties
\* ------------------------------------------------------------------------
\* analyze_customer has ended
Returned == pc[Analyst] \in {"returned", "done"}

ListSet(list) == {list[i] : i \in 1..Len(list)}

\* the float of a score lies in [0, 1]
ScoreInUnit(s) == s.h <= 100 /\ (s.h > 0 \/ (s.h = 0 /\ s.below = 0))

\* the length of a document's questions list, 0 when it has none
QuestionCount(doc) ==
    IF HasKey(doc, <<"questions">>) /\ Get(doc, <<"questions">>).t = "arr"
    THEN Len(Get(doc, <<"questions">>).a)
    ELSE 0

\* C1: for a customer found in the store, whatever the remote call did,
\* analyze_customer returns a report (it does not raise) with 5 to 8
\* questions, a non-empty key-findings list and a confidence in [0, 1].
C1_ReportForStoredCustomer ==
    (Returned /\ customer_data # NoTable) =>
        /\ result.raised = ""
        /\ Len(result.value.investigative_questions) >= 5
        /\ Len(result.value.investigative_questions) <= 8
        /\ result.value.analysis_summary.key_findings # <<>>
        /\ ScoreInUnit(result.value.analysis_summary.confidence_score)

\* a stored customer, every attempt of the remote call failed, and a
\* regular report came back
C1_Witness ==
    /\ Returned
    /\ customer_data # NoTable
    /\ outcome[Analyst].raised = retry_exhausted
    /\ failed_step = ""
    /\ result.raised = ""
    /\ Len(result.value.investigative_questions) = 5

UnknownId ==
    /\ ~IsBlankId(request.customer_id)
    /\ data_file.state = "table"
    /\ ResolveIdColumn(data_file) # ""
    /\ SelectRows(data_file.rows, IdOf(request.customer_id)) = <<>>

\* C3: for a non-blank identifier that matches no row, analyze_customer
\* fails with the not-found error and returns no report, and the endpoint
\* answers 404.
C3_UnknownCustomerNotFound ==
    (pc[Analyst] = "done" /\ UnknownId) =>
        /\ result.raised = "FileNotFoundError"
        /\ (request.via = "api" => http_status = 404)

\* C4: analyze_customer called with an empty or blank identifier fails
\* with the validation error and returns no report.
C4_BlankIdRejected ==
    (Returned /\ request.via = "service" /\ IsBlankId(request.customer_id)) =>
        result.raised = "ValueError"

\* the questions position i of a report may carry
AllowedAt(i) ==
    ListSet(Patterns[i]) \cup {afd_fallback_questions[i], local_fallback_questions[i]}

\* C5: the question texts of a report do not come from the model's text:
\* whatever the remote call answered, question i is a member of pattern i
\* of the catalog or entry i of a fixed fallback list.
C5_QuestionsFromCatalog ==
    (Returned /\ result.raised = "") =>
        \A i \in 1..Len(result.value.investigative_questions) :
            result.value.investigative_questions[i].question \in AllowedAt(i)

\* the remote call answered with text, and the report carries a drawn
\* question
C5_Witness ==
    /\ Returned
    /\ result.raised = ""
    /\ failed_step = ""
    /\ outcome[Analyst] = Ok(ProseResponse)
    /\ result.value.investigative_questions[1].question = investment_questions[2]

C7_ExhaustedRaisesOpenAIError ==
    \A c \in Callers :
        /\ attempt[c] <= 3
        /\ outcome[c].raised \notin {"", "none"} => outcome[c].raised = "OpenAIError"

\* C8: whatever the interleaving of the callers, two consecutive outbound
\* calls are at least the minimum interval apart.
C8_CallsSerialized ==
    calls.n >= 2 => calls.last - calls.prev >= min_request_interval

\* C9: for one caller, the first pass on a fresh client does not wait,
\* and two consecutive passes record times at least the minimum interval
\* apart.
C9_SequentialPasses ==
    /\ ~calls.first_waited
    /\ calls.n >= 2 => calls.last - calls.prev >= min_request_interval

\* the second request started at once and was held back for the interval
C9_Witness ==
    /\ calls.n >= 2
    /\ ~calls.first_waited
    /\ calls.last - calls.prev = min_request_interval

\* C10: when the completion request has failed, analyze_fraud_data
\* returns its fallback: an error marker, risk level Medium whatever the
\* formatted text says, the generic summary and exactly 5 questions.
C10_RemoteFailureFallback ==
    (ai_analysis # NoAnalysis /\ outcome[Analyst].raised \notin {"", "none"}) =>
        /\ ai_analysis.error # ""
        /\ ai_analysis.risk_level = "Medium"
        /\ StartsAt(ai_analysis.summary, <<"Analysis", "completed", "for", "customer">>, 1)
        /\ Len(ai_analysis.questions) = 5

\* the request failed for a row whose text says high risk
C10_Witness ==
    /\ ai_analysis # NoAnalysis
    /\ outcome[Analyst].raised = retry_exhausted
    /\ Contains(Lower(formatted_data), <<"high", "risk">>)
    /\ ai_analysis.risk_level = "Medium"

\* analyze_fraud_data was called on its own and its request succeeded
AfdSucceeded ==
    /\ request.via = "client"
    /\ pc[Analyst] = "done"
    /\ outcome[Analyst].raised = ""
    /\ ~outcome[Analyst].value.is_none

\* C11 as stated: after a successful request the risk level is High when
\* the text contains high risk in any letter case, otherwise Low when it
\* contains the marker fraud_cases_linked_past_30_days: 0 exactly as
\* written, otherwise Medium, and there is no error marker.
C11_ExactMarker ==
    AfdSucceeded =>
        /\ ai_analysis.error = ""
        /\ ai_analysis.risk_level =
              (IF Contains(Lower(formatted_data), <<"high", "risk">>) THEN "High"
               ELSE IF Contains(formatted_data, <<"fraud_cases_linked_past_30_days:", "0">>) THEN "Low"
               ELSE "Medium")

\* C11: after a successful request the risk level is High when the text
\* contains high risk, otherwise Low when it contains the zero-cases
\* marker, both tests made on the lower-cased text, otherwise Medium; High
\* takes precedence, and there is no error marker.
C11_RiskHeuristic ==
    AfdSucceeded =>
        /\ ai_analysis.error = ""
        /\ ai_analysis.risk_level =
              (IF Contains(Lower(formatted_data), <<"high", "risk">>) THEN "High"
               ELSE IF Contains(Lower(formatted_data), <<"fraud_cases_linked_past_30_days:", "0">>) THEN "Low"
               ELSE "Medium")

\* a text with both the words High Risk and the marker was rated High
C11_Witness ==
    /\ AfdSucceeded
    /\ Contains(formatted_data, <<"High", "Risk">>)
    /\ Contains(formatted_data, <<"fraud_cases_linked_past_30_days:", "0">>)
    /\ ai_analysis.risk_level = "High"

\* the rows of a table whose identifier, as a string, equals the trimmed
\* identifier
Matching(table, customer_id) ==
    {i \in 1..Len(table.rows) : <<table.rows[i].id>> = Strip(customer_id)}

\* C12: get_customer_data raises the validation error for an empty or
\* blank identifier without reading the source; for a non-blank
\* identifier and a loaded table with an identifier column it returns the
\* rows whose identifier equals the trimmed identifier, case-sensitively,
\* when there are any, and raises the not-found error when there are none.
C12_Lookup ==
    call.fn = "get_customer_data" =>
        IF Strip(call.args) = <<>>
        THEN call.ret.raised = "ValueError" /\ ~call.read
        ELSE (data_cache.state = "table" /\ ResolveIdColumn(data_cache) # "") =>
                IF Matching(data_cache, call.args) # {}
                THEN /\ call.ret.raised = ""
                     /\ Len(call.ret.value.rows) = Cardinality(Matching(data_cache, call.args))
                     /\ \A i \in 1..Len(call.ret.value.rows) :
                            <<call.ret.value.rows[i].id>> = Strip(call.args)
                ELSE call.ret.raised = "FileNotFoundError"

\* a blank identifier was refused although the file is missing
C12_Witness ==
    /\ call.fn = "get_customer_data"
    /\ call.args = <<" ", " ">>
    /\ data_file = MissingFile
    /\ data_cache = NoTable
    /\ call.ret.raised = "ValueError"

\* C13: once a table is cached, a call of the store that is not a load
\* with force_reload (a plain load, a lookup, the list of identifiers, the
\* data info) does not read the source again and leaves the cache as it
\* is, and a plain load returns the cached table.
C13_LoadOnce ==
    [][(data_cache # NoTable /\ data_file' = data_file
          /\ ~(call'.fn = "load_data" /\ call'.args = <<TRUE>>)) =>
          /\ reads' = reads
          /\ data_cache' = data_cache
          /\ (call'.fn = "load_data" => call'.ret = Ok(data_cache))]_vars

\* the file was replaced after the load, and the data info still came
\* from the cached table without a read
C13_Witness ==
    /\ data_cache.state = "table"
    /\ data_file # data_cache
    /\ call.fn = "get_data_info"
    /\ ~call.read
    /\ reads = 1
    /\ call.ret.raised = ""
    /\ call.ret.value.rows = Len(data_cache.rows)

\* identifiers a caller may ask for
CandidateIds == {"12345", "67890", "AB1", "ab1", "99999"}

\* C14: get_available_customers returns, each once, exactly the
\* identifiers get_customer_data accepts on the same loaded table, under
\* whichever known name the identifier column has.
C14_ListIdsMatchesLookup ==
    (call.fn = "get_available_customers" /\ call.ret.raised = "") =>
        LET ids == call.ret.value
        IN  /\ \A i, j \in 1..Len(ids) : i # j => ids[i] # ids[j]
            /\ \A id \in CandidateIds :
                  id \in ListSet(ids)
                      <=> get_customer_data(data_cache, data_file, <<id>>).out.raised = ""

\* format_for_ai_analysis was called on a row and returned its text
Formatted ==
    /\ call.fn = "format_for_ai_analysis"
    /\ customer_data.rows # <<>>
    /\ call.ret.raised = ""

\* the words that name an internal flag source, in lower case
InternalNames == {"biocatch", "sasfm", "isod", "biocatch_flag", "group_ib_flag",
                  "sasfm_flag", "isod_flag", "groupib", "group-ib"}

NamesInternalSource(text) ==
    \/ \E i \in 1..Len(text) : LowerTok(text[i]) \in InternalNames
    \/ Contains(Lower(text), <<"group", "ib">>)

\* the flags of a row whose value is not the unknown one
KnownFlags(row) == {i \in 1..Len(RiskColumns) : FlagOf(row, RiskColumns[i]) # UNKNOWN}

\* the generic labels
GenericLabels == {<<"High", "Risk", "Indicator">>, <<"Medium", "Risk", "Indicator">>,
                  <<"Low", "Risk", "Indicator">>}

\* C15: the formatted text of a row names no internal flag source, in any
\* letter case; it carries one generic High, Medium or Low Risk Indicator
\* label for each flag that is not unknown, and the reported count of
\* indicators is the number of those flags.
C15_NoInternalNames ==
    Formatted =>
        LET text == call.ret.value
            known == Cardinality(KnownFlags(FirstRow(customer_data)))
        IN  /\ ~NamesInternalSource(text)
            /\ Contains(text, <<"Detected:", NumTok(known)>>)
            /\ Cardinality({i \in 1..Len(text) : text[i] = "Indicator"}) = known
            /\ \A i \in 1..Len(text) :
                  text[i] = "Indicator" => SubSeq(text, i - 2, i) \in GenericLabels

\* a row with three known flags and one unknown gave a count of 3
C15_Witness ==
    /\ Formatted
    /\ FirstRow(customer_data).ISOD_FLAG = UNKNOWN
    /\ FirstRow(customer_data).BIOCATCH_FLAG = HIGH_RISK
    /\ Cardinality(KnownFlags(FirstRow(customer_data))) = 3
    /\ Contains(call.ret.value, <<"Detected:", "3">>)

\* C20: for a row with a flag of value high risk, the formatted text
\* contains the customer identifier, the header Customer Analysis Report
\* and the words high risk in lower case.
C20_TextSaysHighRisk ==
    (Formatted /\ \E i \in 1..Len(RiskColumns) :
                     FlagOf(FirstRow(customer_data), RiskColumns[i]) = HIGH_RISK) =>
        /\ Contains(call.ret.value, <<FirstRow(customer_data).id>>)
        /\ Contains(call.ret.value, <<"Customer", "Analysis", "Report:">>)
        /\ Contains(call.ret.value, <<"high", "risk">>)

\* the constructor was called, and its arguments are still on record
Constructing == call.fn \in {"__init__", "get_usage_stats"} /\ call.args # <<>>

\* the key the constructor works with: the argument unless it is absent or
\* empty, otherwise the variable OPENAI_API_KEY
EffectiveKey == IF call.args[1] \in {None, Str("")} THEN environ ELSE call.args[1]

FollowupsDone == call.fn = "generate_followup_questions"

\* the list the content of the response parses to, <<>> when it is none
ParsedList ==
    LET o == outcome[Analyst]
    IN  IF o.raised = "" /\ ~o.value.is_none
           /\ _parse_json_response(o.value.content).value.t = "arr"
        THEN <<_parse_json_response(o.value.content).value.a>>
        ELSE <<>>

\* C17: generate_followup_questions never raises and returns at most five
\* items: the first five elements of the list the response parses to, and
\* one generic question when the request failed or the response is not a
\* list.
C17_FollowupsTotal ==
    FollowupsDone =>
        /\ call.ret.raised = ""
        /\ Len(call.ret.value) <= 5
        /\ IF ParsedList # <<>>
           THEN LET items == ParsedList[1]
                IN  /\ Len(call.ret.value) = (IF Len(items) < 5 THEN Len(items) ELSE 5)
                    /\ \A i \in 1..Len(call.ret.value) : call.ret.value[i] = items[i]
           ELSE /\ Len(call.ret.value) = 1
                /\ call.ret.value \in {followup_not_a_list, followup_failed}

\* an array of six questions gave its first five
C17_Witness ==
    /\ FollowupsDone
    /\ ParsedList # <<>>
    /\ Len(ParsedList[1]) = 6
    /\ Len(call.ret.value) = 5
    /\ call.ret.value[5] = JStr(<<"Question", " ", "5">>)

\* _calculate_confidence_score has returned
ConfidenceDone == call.fn = "_calculate_confidence_score"

\* the order of two scores as floats
ScoreLess(a, b) == a.h < b.h \/ (a.h = b.h /\ a.below > b.below)

\* how many of the three conditions an analysis and a record meet
ConditionsMet(analysis, record) ==
    (IF Len(record.rows) > 0 THEN 1 ELSE 0)
    + (IF analysis.error = "" THEN 1 ELSE 0)
    + (IF Len(analysis.questions) >= 5 THEN 1 ELSE 0)

\* min(1.0, 0.70 + 0.10 * k) as binary floating point computes it, one
\* addition per condition: 0.7, 0.7999999999999999, 0.8999999999999999 and
\* 0.9999999999999999
ClampedSum(k) ==
    LET sum == Score(70 + 10 * k, IF k = 0 THEN 0 ELSE 1)
    IN  IF ScoreLess(Score(100, 0), sum) THEN Score(100, 0) ELSE sum

\* an analysis with no error marker and at least five questions
GoodAnalysis(analysis) == analysis.error = "" /\ Len(analysis.questions) >= 5

\* an analysis with an error marker and fewer than five questions
PoorAnalysis(analysis) == analysis.error # "" /\ Len(analysis.questions) < 5

\* C18: the confidence score is min(1.0, 0.70 + 0.10 for a non-empty record
\* + 0.10 for no error marker + 0.10 for at least 5 questions), in floating
\* point; for a non-empty record an analysis with no error marker and at
\* least 5 questions scores strictly higher than any with an error marker
\* and fewer than 5 questions.
C18_ConfidenceFormula ==
    ConfidenceDone =>
        /\ call.ret.raised = ""
        /\ call.ret.value = ClampedSum(ConditionsMet(ai_analysis, customer_data))
        /\ ScoreInUnit(call.ret.value)
        /\ (Len(customer_data.rows) > 0 /\ GoodAnalysis(ai_analysis)) =>
              \A poor \in ConfidenceAnalyses :
                  PoorAnalysis(poor) =>
                      ScoreLess(_calculate_confidence_score(poor, customer_data),
                                call.ret.value)

\* a record with five questions and an error marker scored 0.7 + 0.1 + 0.1
C18_Witness ==
    /\ ConfidenceDone
    /\ Len(customer_data.rows) > 0
    /\ ai_analysis.error # ""
    /\ Len(ai_analysis.questions) = 5
    /\ call.ret.value = Score(90, 1)

\* counters with the usage of one response added
PlusUsage(counters, usage) ==
    [total_tokens |-> counters.total_tokens + usage.total_tokens,
     prompt_tokens |-> counters.prompt_tokens + usage.prompt_tokens,
     completion_tokens |-> counters.completion_tokens + usage.completion_tokens]

\* C19: under every interleaving of the callers the three usage counters
\* are the sums of the usage the remote service reported on its successful
\* answers; a step changes them only when a remote call succeeds with
\* usage metadata, by that usage, and get_usage_stats reads them unchanged.
C19_UsageAccounting ==
    /\ [](token_usage = calls.used)
    /\ [][/\ token_usage' # token_usage =>
                \E c \in Callers :
                    /\ pc[c] = "in_flight"
                    /\ outcome'[c].raised = ""
                    /\ outcome'[c].value.usage.present
                    /\ token_usage' = PlusUsage(token_usage, outcome'[c].value.usage)
          /\ (\E c \in Callers : pc[c] = "in_flight" /\ pc'[c] # "in_flight"
                                 /\ (outcome'[c].raised # ""
                                     \/ ~outcome'[c].value.usage.present))
                => token_usage' = token_usage
          /\ (call' # call /\ call'.fn = "get_usage_stats") =>
                /\ token_usage' = token_usage
                /\ call'.ret.value.token_usage = token_usage]_vars

\* two answers with usage and one without were counted, and the statistics
\* read after the first are behind the counters
C19_Witness ==
    /\ token_usage = [total_tokens |-> 4, prompt_tokens |-> 2, completion_tokens |-> 2]
    /\ calls.n >= 3
    /\ call.fn = "get_usage_stats"
    /\ call.ret.value.token_usage.total_tokens = 2

\* the JSON document the response text of the caller's request decodes to
ResponseDoc == json_loads(outcome[Analyst].value.content)

\* C21: when the request succeeds and the response text is a JSON object
\* with the keys summary, questions and risk_level, the summary of the
\* result of analyze_fraud_data is the value of the summary field of that
\* object, and the result has exactly 5 questions.
C21_SummaryFromJson ==
    (AfdSucceeded /\ ResponseDoc.raised = "" /\ ResponseDoc.value.t = "obj"
        /\ HasKey(ResponseDoc.value, <<"summary">>)
        /\ HasKey(ResponseDoc.value, <<"questions">>)
        /\ HasKey(ResponseDoc.value, <<"risk_level">>)) =>
        /\ ai_analysis.summary = Get(ResponseDoc.value, <<"summary">>).s
        /\ Len(ai_analysis.questions) = 5

\* the interior of the first fenced json block of a text, <<>> when there
\* is no closed block
FencedInterior(text) ==
    LET open == FindTok(text, {FENCE_JSON}, 1)
        end == FindTok(text, {FENCE, FENCE_JSON}, open + 1)
    IN  IF open # 0 /\ end # 0 THEN SubSeq(text, open + 1, end - 1) ELSE <<>>

\* the document a text holds: the text itself when it is valid JSON, else
\* the interior of its fenced block when that is valid JSON
ValidDocument(text) ==
    IF json_loads(text).raised = "" THEN json_loads(text)
    ELSE json_loads(FencedInterior(text))

\* C22: for a text that is a valid JSON document, raw or wrapped in a
\* fenced json block, _parse_json_response returns the decoded document
\* itself, every value unchanged, without the error marker.
C22_ValidJsonRoundTrip ==
    (parsed # NoOutcome /\ ValidDocument(content).raised = "") =>
        /\ parsed.raised = ""
        /\ parsed.value = ValidDocument(content).value

\* analyze_customer returned a report that is not the fallback report
RegularReport == Returned /\ result.raised = "" /\ failed_step = ""

\* the key findings and the red flags of the report
KeyFindings == result.value.analysis_summary.key_findings
RedFlags == result.value.analysis_summary.red_flags

\* the title-cased names of the four flags, in the order of the columns
FlagTitles == <<"Biocatch", "Group_Ib", "Sasfm", "Isod">>

\* the columns of a row whose cell contains high in any letter case
HighColumns(row) ==
    {i \in 1..4 : \E j \in 1..Len(FlagOf(row, RiskColumns[i])) :
                      LowerTok(FlagOf(row, RiskColumns[i])[j]) = "high"}

\* a finding names exactly the columns of the set, in their order: after
\* its four leading words come the titles, separated by commas
NamesColumns(finding, columns) ==
    LET names == SelectSeq(SubSeq(finding, 5, Len(finding)), LAMBDA t : t # ",")
    IN  /\ SubSeq(finding, 1, 4) = <<"High", "risk", "flags", "detected:">>
        /\ Len(names) = Cardinality(columns)
        /\ \A k \in 1..Len(names) :
              \E i \in columns :
                  /\ names[k] = FlagTitles[i]
                  /\ Cardinality({j \in columns : j < i}) = k - 1

\* the narrative summary holds both words, in any letter case
SaysMultipleRisk(summary) ==
    /\ \E i \in 1..Len(summary) : LowerTok(summary[i]) = "multiple"
    /\ \E i \in 1..Len(summary) : LowerTok(summary[i]) = "risk"

\* C23: the key findings of a regular report are, in this order: one
\* string naming, in column order, exactly the flags whose value contains
\* high in any letter case, if there is one; one fraud-history string iff
\* the fraud-case count is positive; the multiple-risk-indicators string
\* iff the summary holds both multiple and risk; and the placeholder alone
\* iff none of these was produced.
C23_KeyFindingsOrder ==
    RegularReport =>
        LET row == FirstRow(customer_data)
            hasFlags == HighColumns(row) # {}
            hasFraud == row.fraud.n > 0
            hasMulti == SaysMultipleRisk(ai_analysis.summary)
            nFlags == IF hasFlags THEN 1 ELSE 0
            nFraud == IF hasFraud THEN 1 ELSE 0
            nMulti == IF hasMulti THEN 1 ELSE 0
        IN  IF ~hasFlags /\ ~hasFraud /\ ~hasMulti
            THEN KeyFindings = <<PLACEHOLDER_FINDING>>
            ELSE /\ Len(KeyFindings) = nFlags + nFraud + nMulti
                 /\ hasFlags => NamesColumns(KeyFindings[1], HighColumns(row))
                 /\ hasFraud =>
                       KeyFindings[nFlags + 1] =
                           <<"Previous", "fraud", "cases:", NumTok(row.fraud.n),
                             "in", "past", "30", "days">>
                 /\ hasMulti => KeyFindings[nFlags + nFraud + 1] = MULTIPLE_FINDING

\* a record with two flags raised in capitals, a fraud case and a summary
\* that speaks of multiple risk factors gave the three findings in order
C23_Witness ==
    /\ RegularReport
    /\ HighColumns(FirstRow(customer_data)) = {2, 4}
    /\ FirstRow(customer_data).GROUP_IB_FLAG = HIGH_CAPS
    /\ FirstRow(customer_data).fraud.n = 1
    /\ KeyFindings = <<<<"High", "risk", "flags", "detected:", "Group_Ib", ",", "Isod">>,
                       <<"Previous", "fraud", "cases:", "1", "in", "past", "30", "days">>,
                       MULTIPLE_FINDING>>

\* the red flag a column contributes
RedFlagOf(col) ==
    CASE col = "BIOCATCH_FLAG" -> <<"BioCatch", "behavioral", "analysis", "flagged", "high", "risk">>
      [] col = "GROUP_IB_FLAG" -> <<"Group", "IB", "fraud", "detection", "flagged", "high", "risk">>
      [] col = "SASFM_FLAG" -> <<"SASFM", "system", "flagged", "high", "risk">>

\* the strings a row calls for: one per flag of the three that is exactly
\* high risk, one for a positive fraud-case count
RedFlagsDue(row) ==
    {RedFlagOf(col) : col \in {c \in {"BIOCATCH_FLAG", "GROUP_IB_FLAG", "SASFM_FLAG"} :
                                  FlagOf(row, c) = <<"high", "risk">>}}
    \cup (IF row.fraud.n > 0
          THEN {<<"Customer", "involved", "in", NumTok(row.fraud.n), "fraud", "case(s)",
                  "in", "past", "30", "days">>}
          ELSE {})

\* C24: the red flags of a regular report are exactly one string for each
\* of BIOCATCH, GROUP_IB and SASFM whose value is exactly high risk, and
\* one fraud-case string iff the count is positive; ISOD contributes
\* nothing, and the list is empty when none of these holds.
C24_RedFlagsExact ==
    RegularReport =>
        /\ ListSet(RedFlags) = RedFlagsDue(FirstRow(customer_data))
        /\ Len(RedFlags) = Cardinality(RedFlagsDue(FirstRow(customer_data)))
        /\ \A i \in 1..Len(RedFlags) : ~Contains(Lower(RedFlags[i]), <<"isod">>)

\* a record with ISOD at high risk, BIOCATCH raised in capitals, GROUP_IB at
\* high risk and no fraud case has the one red flag of GROUP_IB
C24_Witness ==
    /\ RegularReport
    /\ FirstRow(customer_data).ISOD_FLAG = HIGH_RISK
    /\ FirstRow(customer_data).BIOCATCH_FLAG = HIGH_CAPS
    /\ FirstRow(customer_data).GROUP_IB_FLAG = HIGH_RISK
    /\ FirstRow(customer_data).SASFM_FLAG = LOW_RISK
    /\ FirstRow(customer_data).fraud.n = 0
    /\ RedFlags = <<<<"Group", "IB", "fraud", "detection", "flagged", "high", "risk">>>>

\* both analyses were made of the text of the request: analyze_fraud_data
\* on a successful call, and the local fallback
BothAnalysed == AfdSucceeded /\ call.fn = "_create_fallback_ai_analysis"

\* the analysis the local fallback returned
LocalAnalysis == call.ret.value

\* C25 as stated: for every text the local fallback chooses the risk level
\* analyze_fraud_data chooses on a successful call, and it returns exactly
\* 5 questions and no error marker.
C25_SameHeuristic ==
    BothAnalysed =>
        /\ LocalAnalysis.risk_level = ai_analysis.risk_level
        /\ Len(LocalAnalysis.questions) = 5
        /\ LocalAnalysis.error = ""

\* the text holds the zero-cases marker in some letter case, but not in
\* lower case, and does not hold the words high risk
MarkerInOtherCase(text) ==
    /\ Contains(Lower(text), <<"fraud_cases_linked_past_30_days:", "0">>)
    /\ ~Contains(text, <<"fraud_cases_linked_past_30_days:", "0">>)
    /\ ~Contains(Lower(text), <<"high", "risk">>)

\* C25: the local fallback returns exactly 5 questions and no error marker,
\* and its risk level is High for a text with the words high risk in any
\* letter case, otherwise Low for a text with the zero-cases marker in
\* lower case, otherwise Medium. It equals the level of analyze_fraud_data
\* for every text except one that holds the marker in another letter case
\* only (Low there, Medium here); it is equal for every text that
\* format_for_ai_analysis produces.
C25_LocalHeuristic ==
    BothAnalysed =>
        /\ Len(LocalAnalysis.questions) = 5
        /\ LocalAnalysis.error = ""
        /\ LocalAnalysis.risk_level =
              (IF Contains(Lower(formatted_data), <<"high", "risk">>) THEN "High"
               ELSE IF Contains(formatted_data, <<"fraud_cases_linked_past_30_days:", "0">>)
               THEN "Low" ELSE "Medium")
        /\ LocalAnalysis.risk_level # ai_analysis.risk_level
              <=> MarkerInOtherCase(formatted_data)
        /\ MarkerInOtherCase(formatted_data) =>
              LocalAnalysis.risk_level = "Medium" /\ ai_analysis.risk_level = "Low"
        /\ (\E r \in Rows : format_for_ai_analysis(Table("Customer_CGID", <<r>>))
                               = Ok(formatted_data))
              => LocalAnalysis.risk_level = ai_analysis.risk_level

\* both analyses rated a text with the marker in lower case Low
C25_Witness ==
    /\ BothAnalysed
    /\ formatted_data = <<"fraud_cases_linked_past_30_days:", "0">>
    /\ LocalAnalysis.risk_level = "Low"
    /\ ai_analysis.risk_level = "Low"

\* _create_investigative_questions has returned
QuestionsDone == call.fn = "_create_investigative_questions"

\* the structured questions it returned
Structured == call.ret.value

\* the order of the raw list is kept, cut after 8, priorities are in 1..5
KeepsOrder ==
    /\ call.ret.raised = ""
    /\ Len(Structured) = (IF Len(ai_analysis.questions) < 8
                          THEN Len(ai_analysis.questions) ELSE 8)
    /\ \A i \in 1..Len(Structured) :
          /\ Structured[i].question = ai_analysis.questions[i]
          /\ Structured[i].priority \in 1..5

\* C26 as stated: the structured questions keep the raw order, every
\* priority is in 1..5, and a question at an earlier position never has a
\* lower priority than one at a later position.
C26_PrioritiesNeverIncrease ==
    QuestionsDone =>
        /\ KeepsOrder
        /\ \A i, j \in 1..Len(Structured) :
              i < j => Structured[i].priority >= Structured[j].priority

\* the category earns the bonus of one
Boosted(q) == q.category \in {"Identity Verification", "Transaction Pattern"}

\* C26: the structured questions keep the raw order, cut after 8, and
\* every priority is in 1..5. Among the first five questions priorities
\* never increase with position. From the sixth question on the position
\* counts 1 for every question, so a question of the categories Identity
\* Verification or Transaction Pattern has priority 2 there, above the 1
\* of an earlier question of another category at the fifth position or
\* later; these are the only increases.
C26_PriorityOrder ==
    QuestionsDone =>
        /\ KeepsOrder
        /\ \A i, j \in 1..Len(Structured) :
              (i < j /\ j <= 5) => Structured[i].priority >= Structured[j].priority
        /\ \A i, j \in 1..Len(Structured) :
              (i < j /\ Structured[i].priority < Structured[j].priority) =>
                  /\ i >= 5 /\ j >= 6
                  /\ ~Boosted(Structured[i]) /\ Boosted(Structured[j])
                  /\ Structured[i].priority = 1 /\ Structured[j].priority = 2
        /\ \A i, j \in 1..Len(Structured) :
              (5 <= i /\ i < j /\ ~Boosted(Structured[i]) /\ Boosted(Structured[j]))
                  => Structured[i].priority < Structured[j].priority

\* a list of nine questions was cut to eight, and its sixth question has a
\* higher priority than its fifth
C26_Witness ==
    /\ QuestionsDone
    /\ Len(ai_analysis.questions) = 9
    /\ Len(Structured) = 8
    /\ Structured[5].priority = 1
    /\ Structured[6].priority = 2

\* C27: a load, plain or with force_reload, that fails leaves the cache as
\* it was before the call: after a failed first load the cache is still
\* empty, after a failed forced reload the table cached before is kept.
C27_FailedLoadKeepsCache ==
    [][(call'.fn = "load_data" /\ call'.ret.raised # "" /\ data_file' = data_file
          /\ (reads' # reads \/ call' # call))
          => data_cache' = data_cache]_vars

\* the values the data model gives a risk flag
ModelFlags == {<<"low", "risk">>, <<"medium", "risk">>, <<"high", "risk">>, <<"N/A">>}

\* a row whose fields take values of the data model
ModelRow(row) ==
    /\ \A i \in 1..4 : FlagOf(row, RiskColumns[i]) \in ModelFlags
    /\ row.fraud.isnum /\ row.fraud.n >= 0

\* analyze_customer returned a report, regular or fallback, for a stored
\* row of the data model
ReportOnModelRow ==
    /\ Returned
    /\ result.raised = ""
    /\ customer_data.state = "table"
    /\ customer_data.rows # <<>>
    /\ ModelRow(FirstRow(customer_data))

\* C28: for a row of the data model no report carries the risk level Low
\* or Critical, and the formatted text never holds the zero-cases marker:
\* the level is High when the analysis step succeeded (a regular report
\* whose analysis has no error marker) and some flag is high risk, and
\* Medium in every other case.
C28_NeverLowOrCritical ==
    ReportOnModelRow =>
        LET level == result.value.analysis_summary.risk_assessment
            someHigh == \E i \in 1..4 :
                            FlagOf(FirstRow(customer_data), RiskColumns[i]) = <<"high", "risk">>
        IN  /\ level \notin {"Low", "Critical"}
            /\ ~Contains(Lower(formatted_data), <<"fraud_cases_linked_past_30_days:", "0">>)
            /\ level = (IF failed_step = "" /\ ai_analysis.error = "" /\ someHigh
                        THEN "High" ELSE "Medium")

\* a customer with no flag raised and no fraud case, the remote call
\* answered, and the report says Medium
C28_Witness ==
    /\ ReportOnModelRow
    /\ FirstRow(customer_data) = UnknownRow
    /\ failed_step = ""
    /\ outcome[Analyst].raised = ""
    /\ ai_analysis.error = ""
    /\ Contains(formatted_data, <<"Cases:", "0">>)
    /\ result.value.analysis_summary.risk_assessment = "Medium"

\* C29: for a customer with no flag containing high and a fraud-case count
\* of 0, no report holds the key finding Multiple fraud risk indicators
\* identified, whether the remote call succeeded or failed.
C29_MultipleOnlyWithRisk ==
    (Returned /\ result.raised = "" /\ customer_data.state = "table"
        /\ customer_data.rows # <<>>
        /\ HighColumns(FirstRow(customer_data)) = {}
        /\ FirstRow(customer_data).fraud.isnum
        /\ FirstRow(customer_data).fraud.n = 0) =>
        \A i \in 1..Len(KeyFindings) : KeyFindings[i] # MULTIPLE_FINDING

\* the step of analyze_customer a position belongs to: 1 lookup, 2 format,
\* 3 AI analysis (with the completion request under it), 4 assembly
StepOf(position) ==
    CASE position = "idle" -> 0
      [] position = "get_customer_data" -> 1
      [] position = "format" -> 2
      [] position \in {"perform_ai", "rate_limit", "sleeping", "in_flight", "backoff",
                       "afd_return"} -> 3
      [] position \in {"summary", "questions", "respond"} -> 4
      [] position = "returned" -> 5
      [] OTHER -> 6

\* the lookup step failed, or the endpoint turned the blank id away
LookupFailed == failed_step = "get_customer_data" \/ http_status = 400

\* C30: within one analyze_customer call the steps run in the order
\* lookup, format, AI analysis, assembly, none of them entered before the
\* one ahead of it; analyze_fraud_data is invoked at most once; and when
\* the lookup fails (blank id, unknown customer, data-source error) no
\* completion request is issued, the throttle timestamp is not updated and
\* the usage counters are unchanged.
C30_LinearPipeline ==
    [][/\ StepOf(pc'[Analyst]) >= StepOf(pc[Analyst])
       /\ StepOf(pc'[Analyst]) \in 1..4 => StepOf(pc'[Analyst]) <= StepOf(pc[Analyst]) + 1
       /\ ncalls'[Analyst] <= 1
       /\ LookupFailed' =>
            /\ ncalls'[Analyst] = 0
            /\ calls' = NoCalls
            /\ last_request_time' = 0
            /\ token_usage' = ZeroUsage]_vars

\* the analysis of an unreadable data file has returned its fallback
\* report and the client was never used
C30_Witness ==
    /\ Returned
    /\ data_file = CorruptFile
    /\ failed_step = "get_customer_data"
    /\ result.raised = ""
    /\ calls = NoCalls
    /\ last_request_time = 0
====
